---- MODULE Spec2Model ----
(***************************************************************************)
(* Hit-judging engine of the bass practice game (desktop Go application    *)
(* and the web game store).                                                *)
(*                                                                         *)
(* Units.  Times are integer milliseconds (0.050 s = 50).  A frequency is  *)
(* represented by its pitch in cents above MIDI note 0, so the             *)
(* equal-tempered frequency of MIDI note m is 100*m and                    *)
(* 1200*log2(f/fExpected) is the difference of the two cents values.       *)
(* Confidence is in percent (0.5 = 50).                                    *)
(*                                                                         *)
(* Wall-clock timestamps are only ever read through time.Since(t); each    *)
(* timestamp t is therefore represented by the value of time.Since(t):     *)
(* sinceStart for GameState.StartTime, sinceLastNote for lastNoteTime,     *)
(* Age for FloatingScore.StartTime.  A value is saturated as soon as the   *)
(* comparison that reads it can no longer change.                          *)
(***************************************************************************)
EXTENDS Integers, Sequences, FiniteSets, TLC

VARIABLES
    exercises,        \* App.exercises: the loaded songs, with the notes' runtime state
    selectedIndex,    \* App.selectedIndex (1-based)
    gameState,        \* App.gameState (HitDetector.state is the same object)
    state,            \* App.state
    lastNoteDetected, \* App.lastNoteDetected
    currentPitch,     \* App.currentPitch
    sinceStart,       \* time.Since(gameState.StartTime), 0 while not playing
    sinceLastNote,    \* time.Since(lastNoteTime) of the frame loop, saturated
    game,             \* the web game store (Alpine.store('game'))
    input,            \* argument of the operation executed by the last step
    output,           \* result of the function applied by the last step
    script,           \* the judgments still to be given to the score state
    judged,           \* the qualities given to the score state so far, in order
    dateNow,          \* Date.now() of the web page
    audio,            \* the AudioInput and the two threads that use it
    songs,            \* the web songs store (Alpine.store('songs')) and its objects
    op                \* the operation executed by the last step

appVars == <<exercises, selectedIndex, gameState, state, lastNoteDetected,
             currentPitch, sinceStart, sinceLastNote>>

vars == <<appVars, game, input, output, script, judged, dateNow, audio, songs,
          op>>

----------------------------------------------------------------------------
(* Program constants *)

PerfectWindow == 50
GoodWindow == 100
OKWindow == 150
MissWindow == 300

HitMiss == 0
HitOK == 1
HitGood == 2
HitPerfect == 3

HitQualities == {HitMiss, HitOK, HitGood, HitPerfect}

StateMenu == 0
StatePreStart == 1
StatePlaying == 2
StateResults == 3

StringG == 0
StringD == 1
StringA == 2
StringE == 3

NoteCooldown == 300
FloatLifetime == 1000
DurationBuffer == 2000
ConfidenceThreshold == 50
CentsTolerance == 50
PlayLineX == 750

----------------------------------------------------------------------------
(* Tunings and derived note names *)

noteNames == <<"C", "C#", "D", "D#", "E", "F", "F#", "G", "G#", "A", "A#", "B">>

noteMap ==
    [n \in {"C", "C#", "Db", "D", "D#", "Eb", "E", "Fb", "F", "F#", "Gb",
            "G", "G#", "Ab", "A", "A#", "Bb", "B", "Cb"} |->
        CASE n = "C" -> 0
          [] n \in {"C#", "Db"} -> 1
          [] n = "D" -> 2
          [] n \in {"D#", "Eb"} -> 3
          [] n \in {"E", "Fb"} -> 4
          [] n = "F" -> 5
          [] n \in {"F#", "Gb"} -> 6
          [] n = "G" -> 7
          [] n \in {"G#", "Ab"} -> 8
          [] n = "A" -> 9
          [] n \in {"A#", "Bb"} -> 10
          [] OTHER -> 11]

\* StringTuning.Semitone: a name missing from the map reads as 0
Semitone(s) == IF s.Note \in DOMAIN noteMap THEN noteMap[s.Note] ELSE 0

TuningStandard ==
    << [Note |-> "G", Octave |-> 2], [Note |-> "D", Octave |-> 2],
       [Note |-> "A", Octave |-> 1], [Note |-> "E", Octave |-> 1] >>

Tuning5StringStandard ==
    << [Note |-> "G", Octave |-> 2], [Note |-> "D", Octave |-> 2],
       [Note |-> "A", Octave |-> 1], [Note |-> "E", Octave |-> 1],
       [Note |-> "B", Octave |-> 0] >>

TuningHalfStepDown ==
    << [Note |-> "Gb", Octave |-> 2], [Note |-> "Db", Octave |-> 2],
       [Note |-> "Ab", Octave |-> 1], [Note |-> "Eb", Octave |-> 1] >>

TuningDropD ==
    << [Note |-> "G", Octave |-> 2], [Note |-> "D", Octave |-> 2],
       [Note |-> "A", Octave |-> 1], [Note |-> "D", Octave |-> 1] >>

TuningFullStepDown ==
    << [Note |-> "F", Octave |-> 2], [Note |-> "C", Octave |-> 2],
       [Note |-> "G", Octave |-> 1], [Note |-> "D", Octave |-> 1] >>

\* TabNote.Note: the name derived with the standard tuning whatever the
\* tuning of the song is
NoteWithStandardTuning(n, tuning) ==
    IF n.String >= Len(TuningStandard) THEN "?"
    ELSE LET openString == TuningStandard[n.String + 1]
             baseNote == Semitone(openString)
         IN  IF n.Fret = 0 THEN openString.Note
             ELSE noteNames[((baseNote + n.Fret) % 12) + 1]

\* TabNote.NoteWithTuning (String is a 0-based index, tuning a 1-based sequence)
NoteWithTuning(n, tuning) ==
    IF n.String >= Len(tuning) THEN "?"
    ELSE LET openString == tuning[n.String + 1]
             baseNote == Semitone(openString)
         IN  IF n.Fret = 0 THEN openString.Note
             ELSE noteNames[((baseNote + n.Fret) % 12) + 1]

\* TabNote.OctaveWithTuning
OctaveWithTuning(n, tuning) ==
    IF n.String >= Len(tuning) THEN 1
    ELSE LET openString == tuning[n.String + 1]
         IN  openString.Octave + ((Semitone(openString) + n.Fret) \div 12)

\* Song.GetTuning: songs of the model always carry a parsed tuning
GetTuning(s) == s.Tuning

NoteAt(s, note) == NoteWithTuning(note, GetTuning(s))

OctaveAt(s, note) == OctaveWithTuning(note, GetTuning(s))

\* getSemitone: NOTE_SEMITONES has the keys of noteMap; a missing name is 0
getSemitone(note) == IF note \in DOMAIN noteMap THEN noteMap[note] ELSE 0

\* getNoteNameForTab (stringIndex is 0-based; tuning[stringIndex] is undefined
\* from the length of the tuning on)
getNoteNameForTab(stringIndex, fret, tuning) ==
    IF stringIndex < 0 \/ stringIndex >= Len(tuning) THEN "?"
    ELSE LET stringTuning == tuning[stringIndex + 1]
             noteIndex == (getSemitone(stringTuning.Note) + fret) % 12
         IN  IF fret = 0 THEN stringTuning.Note
             ELSE noteNames[noteIndex + 1]

\* getOctaveForTab
getOctaveForTab(stringIndex, fret, tuning) ==
    IF stringIndex < 0 \/ stringIndex >= Len(tuning) THEN 1
    ELSE LET stringTuning == tuning[stringIndex + 1]
             notePos == getSemitone(stringTuning.Note) + fret
         IN  stringTuning.Octave + (notePos \div 12)

----------------------------------------------------------------------------
(* Pitch results *)

\* IsValid without the confidence threshold
IsValidAnyConfidence(r) == r.Note # ""

\* PitchResult.IsValid
IsValid(r) == r.Note # "" /\ r.Confidence > ConfidenceThreshold

flatNames ==
    [f \in {"Db", "Eb", "Fb", "Gb", "Ab", "Bb", "Cb"} |->
        CASE f = "Db" -> "C#"
          [] f = "Eb" -> "D#"
          [] f = "Fb" -> "E"
          [] f = "Gb" -> "F#"
          [] f = "Ab" -> "G#"
          [] f = "Bb" -> "A#"
          [] OTHER -> "B"]

NameIndex(name) == CHOOSE i \in 1..12 : noteNames[i] = name

\* buildNoteFrequencies: key <<name, octave>> for octaves 0..4, sharp names and
\* flat aliases; the value is the pitch of the MIDI note in cents
noteFrequencies ==
    LET sharpKeys == {<<noteNames[i], o>> : i \in 1..12, o \in 0..4}
        flatKeys == {<<f, o>> : f \in DOMAIN flatNames, o \in 0..4}
        sharpFreq(k) == 100 * ((k[2] + 1) * 12 + (NameIndex(k[1]) - 1))
    IN  [k \in sharpKeys \cup flatKeys |->
            IF k \in sharpKeys THEN sharpFreq(k)
            ELSE sharpFreq(<<flatNames[k[1]], k[2]>>)]

Abs(x) == IF x < 0 THEN -x ELSE x

\* notesMatch that accepts a deviation of exactly 50 cents
notesMatchInclusive(pitch, song, note) ==
    LET expectedKey == <<NoteAt(song, note), OctaveAt(song, note)>>
    IN  IF expectedKey \notin DOMAIN noteFrequencies THEN FALSE
        ELSE Abs(pitch.Frequency - noteFrequencies[expectedKey]) <= CentsTolerance

\* notesMatch where a key that is missing from the table matches every sample
notesMatchUnknownMatches(pitch, song, note) ==
    LET expectedKey == <<NoteAt(song, note), OctaveAt(song, note)>>
    IN  IF expectedKey \notin DOMAIN noteFrequencies THEN TRUE
        ELSE Abs(pitch.Frequency - noteFrequencies[expectedKey]) < CentsTolerance

\* HitDetector.notesMatch
notesMatch(pitch, song, note) ==
    LET expectedKey == <<NoteAt(song, note), OctaveAt(song, note)>>
    IN  IF expectedKey \notin DOMAIN noteFrequencies THEN FALSE
        ELSE Abs(pitch.Frequency - noteFrequencies[expectedKey]) < CentsTolerance

\* getHitQuality with exclusive window bounds
getHitQualityExclusive(absTimeDiff) ==
    IF absTimeDiff < PerfectWindow THEN HitPerfect
    ELSE IF absTimeDiff < GoodWindow THEN HitGood
    ELSE IF absTimeDiff < OKWindow THEN HitOK
    ELSE HitMiss

\* HitDetector.getHitQuality
getHitQuality(absTimeDiff) ==
    IF absTimeDiff <= PerfectWindow THEN HitPerfect
    ELSE IF absTimeDiff <= GoodWindow THEN HitGood
    ELSE IF absTimeDiff <= OKWindow THEN HitOK
    ELSE HitMiss

----------------------------------------------------------------------------
(* Score / combo state (package song) *)

\* HitQuality.String
QualityString(h) ==
    CASE h = HitPerfect -> "Perfect!"
      [] h = HitGood -> "Good"
      [] h = HitOK -> "OK"
      [] OTHER -> "Miss"

\* HitQuality.Score with the points of Good and OK exchanged
QualityScoreSwapped(h) ==
    CASE h = HitPerfect -> 100
      [] h = HitGood -> 25
      [] h = HitOK -> 50
      [] OTHER -> 0

\* HitQuality.Score
QualityScore(h) ==
    CASE h = HitPerfect -> 100
      [] h = HitGood -> 50
      [] h = HitOK -> 25
      [] OTHER -> 0

Min(a, b) == IF a < b THEN a ELSE b

\* string(rune('0'+d)) for d in 0..9
Digit(d) == <<"0", "1", "2", "3", "4", "5", "6", "7", "8", "9">>[d + 1]

\* the ladder with exclusive breakpoints
MultiplierExclusive(combo) ==
    IF combo > 50 THEN 4
    ELSE IF combo > 25 THEN 3
    ELSE IF combo > 10 THEN 2
    ELSE 1

\* the combo multiplier ladder inlined in GameState.RegisterHit
Multiplier(combo) ==
    IF combo >= 50 THEN 4
    ELSE IF combo >= 25 THEN 3
    ELSE IF combo >= 10 THEN 2
    ELSE 1

\* Song.CalculateDuration
CalculateDuration(notes) ==
    IF Len(notes) = 0 THEN 0
    ELSE notes[Len(notes)].Time + notes[Len(notes)].Duration + DurationBuffer

\* NewGameState(song): song is the index of the song in App.exercises; the
\* GameState points at that song, whose notes keep their runtime state
NewGameState(song, exs) ==
    [Song |-> song, CurrentTime |-> 0, Score |-> 0, Combo |-> 0,
     MaxCombo |-> 0, NotesHit |-> 0, NotesMissed |-> 0,
     TotalNotes |-> Len(exs[song].Notes),
     IsPlaying |-> FALSE, IsFinished |-> FALSE, FloatingText |-> <<>>]

\* GameState.Start (StartTime = time.Now() is sinceStart = 0)
Start(g) == [g EXCEPT !.IsPlaying = TRUE, !.IsFinished = FALSE]

\* GameState.Update without the clean-up of the floating text
GameStateUpdateNoSweep(g, exs, since) ==
    IF ~g.IsPlaying THEN g
    ELSE LET finished == since > exs[g.Song].Duration
         IN  [g EXCEPT !.CurrentTime = since,
                       !.IsPlaying = IF finished THEN FALSE ELSE @,
                       !.IsFinished = IF finished THEN TRUE ELSE @]

\* GameState.Update that finishes as soon as the duration is reached
GameStateUpdateFinishAtDuration(g, exs, since) ==
    IF ~g.IsPlaying THEN g
    ELSE LET finished == since >= exs[g.Song].Duration
             young(f) == f.Age < FloatLifetime
         IN  [g EXCEPT !.CurrentTime = since,
                       !.IsPlaying = IF finished THEN FALSE ELSE @,
                       !.IsFinished = IF finished THEN TRUE ELSE @,
                       !.FloatingText = SelectSeq(@, young)]

\* GameState.Update; since is time.Since(g.StartTime)
GameStateUpdate(g, exs, since) ==
    IF ~g.IsPlaying THEN g
    ELSE LET finished == since > exs[g.Song].Duration
             young(f) == f.Age < FloatLifetime
         IN  [g EXCEPT !.CurrentTime = since,
                       !.IsPlaying = IF finished THEN FALSE ELSE @,
                       !.IsFinished = IF finished THEN TRUE ELSE @,
                       !.FloatingText = SelectSeq(@, young)]

\* RegisterHit that compares the combo with MaxCombo before incrementing it
RegisterHitMaxBeforeIncrement(w, i, quality, x, y) ==
    LET g == w.gs
        combo == IF quality # HitMiss THEN g.Combo + 1 ELSE 0
        points == IF quality # HitMiss
                  THEN QualityScore(quality) * Multiplier(combo)
                  ELSE QualityScore(quality)
        text == IF points > 0 /\ combo > 1
                THEN QualityString(quality) \o " x" \o Digit(Min(combo, 9))
                ELSE QualityString(quality)
    IN  [ex |-> [w.ex EXCEPT ![g.Song].Notes[i].Hit = TRUE,
                             ![g.Song].Notes[i].HitQuality = quality,
                             ![g.Song].Notes[i].HitTime = g.CurrentTime],
         gs |-> [g EXCEPT
                   !.Combo = combo,
                   !.MaxCombo = IF quality # HitMiss /\ g.Combo > @ THEN g.Combo ELSE @,
                   !.NotesHit = IF quality # HitMiss THEN @ + 1 ELSE @,
                   !.NotesMissed = IF quality # HitMiss THEN @ ELSE @ + 1,
                   !.Score = @ + points,
                   !.FloatingText = Append(@, [Text |-> text, X |-> x, Y |-> y,
                                               Age |-> 0, Quality |-> quality])]]

\* RegisterHit whose Miss branch leaves the combo alone
RegisterHitMissKeepsCombo(w, i, quality, x, y) ==
    LET g == w.gs
        combo == IF quality # HitMiss THEN g.Combo + 1 ELSE g.Combo
        points == IF quality # HitMiss
                  THEN QualityScore(quality) * Multiplier(combo)
                  ELSE QualityScore(quality)
        text == IF points > 0 /\ combo > 1
                THEN QualityString(quality) \o " x" \o Digit(Min(combo, 9))
                ELSE QualityString(quality)
    IN  [ex |-> [w.ex EXCEPT ![g.Song].Notes[i].Hit = TRUE,
                             ![g.Song].Notes[i].HitQuality = quality,
                             ![g.Song].Notes[i].HitTime = g.CurrentTime],
         gs |-> [g EXCEPT
                   !.Combo = combo,
                   !.MaxCombo = IF quality # HitMiss /\ combo > @ THEN combo ELSE @,
                   !.NotesHit = IF quality # HitMiss THEN @ + 1 ELSE @,
                   !.NotesMissed = IF quality # HitMiss THEN @ ELSE @ + 1,
                   !.Score = @ + points,
                   !.FloatingText = Append(@, [Text |-> text, X |-> x, Y |-> y,
                                               Age |-> 0, Quality |-> quality])]]

\* RegisterHit that leaves note.Hit unset
RegisterHitNoMark(w, i, quality, x, y) ==
    LET g == w.gs
        combo == IF quality # HitMiss THEN g.Combo + 1 ELSE 0
        points == IF quality # HitMiss
                  THEN QualityScore(quality) * Multiplier(combo)
                  ELSE QualityScore(quality)
        text == IF points > 0 /\ combo > 1
                THEN QualityString(quality) \o " x" \o Digit(Min(combo, 9))
                ELSE QualityString(quality)
    IN  [ex |-> [w.ex EXCEPT ![g.Song].Notes[i].HitQuality = quality,
                             ![g.Song].Notes[i].HitTime = g.CurrentTime],
         gs |-> [g EXCEPT
                   !.Combo = combo,
                   !.MaxCombo = IF quality # HitMiss /\ combo > @ THEN combo ELSE @,
                   !.NotesHit = IF quality # HitMiss THEN @ + 1 ELSE @,
                   !.NotesMissed = IF quality # HitMiss THEN @ ELSE @ + 1,
                   !.Score = @ + points,
                   !.FloatingText = Append(@, [Text |-> text, X |-> x, Y |-> y,
                                               Age |-> 0, Quality |-> quality])]]

\* GameState.RegisterHit on note i of the song of the game state;
\* w = [ex |-> exercises, gs |-> game state]
RegisterHit(w, i, quality, x, y) ==
    LET g == w.gs
        combo == IF quality # HitMiss THEN g.Combo + 1 ELSE 0
        points == IF quality # HitMiss
                  THEN QualityScore(quality) * Multiplier(combo)
                  ELSE QualityScore(quality)
        text == IF points > 0 /\ combo > 1
                THEN QualityString(quality) \o " x" \o Digit(Min(combo, 9))
                ELSE QualityString(quality)
    IN  [ex |-> [w.ex EXCEPT ![g.Song].Notes[i].Hit = TRUE,
                             ![g.Song].Notes[i].HitQuality = quality,
                             ![g.Song].Notes[i].HitTime = g.CurrentTime],
         gs |-> [g EXCEPT
                   !.Combo = combo,
                   !.MaxCombo = IF quality # HitMiss /\ combo > @ THEN combo ELSE @,
                   !.NotesHit = IF quality # HitMiss THEN @ + 1 ELSE @,
                   !.NotesMissed = IF quality # HitMiss THEN @ ELSE @ + 1,
                   !.Score = @ + points,
                   !.FloatingText = Append(@, [Text |-> text, X |-> x, Y |-> y,
                                               Age |-> 0, Quality |-> quality])]]

\* GameState.Accuracy that returns 0 for a game without judgments
AccuracyZeroWhenEmpty(g) ==
    LET total == g.NotesHit + g.NotesMissed
    IN  IF total = 0 THEN [num |-> 0, den |-> 1]
        ELSE [num |-> g.NotesHit * 100, den |-> total]

\* GameState.Accuracy; the float64 result is the fraction num / den
Accuracy(g) ==
    LET total == g.NotesHit + g.NotesMissed
    IN  IF total = 0 THEN [num |-> 100, den |-> 1]
        ELSE [num |-> g.NotesHit * 100, den |-> total]

----------------------------------------------------------------------------
(* Hit detector (package game) *)

NoteY(note) == 80 + note.String * 40

RECURSIVE CheckHitFromAll(_, _, _, _)
\* CheckHit without the return after a match: every matching note is hit
CheckHitFromAll(w, pitch, playLineX, i) ==
    LET song == w.ex[w.gs.Song]
    IN  IF i > Len(song.Notes) THEN w
        ELSE LET note == song.Notes[i]
                 timeDiff == note.Time - w.gs.CurrentTime
             IN  IF note.Hit THEN CheckHitFromAll(w, pitch, playLineX, i + 1)
                 ELSE IF timeDiff > MissWindow
                      THEN CheckHitFromAll(w, pitch, playLineX, i + 1)
                 ELSE IF timeDiff < -MissWindow
                      THEN CheckHitFromAll(RegisterHit(w, i, HitMiss, playLineX, NoteY(note)),
                                           pitch, playLineX, i + 1)
                 ELSE IF notesMatch(pitch, song, note)
                      THEN CheckHitFromAll(RegisterHit(w, i, getHitQuality(Abs(timeDiff)),
                                                       playLineX, NoteY(note)),
                                           pitch, playLineX, i + 1)
                 ELSE CheckHitFromAll(w, pitch, playLineX, i + 1)

RECURSIVE CheckHitFromSigned(_, _, _, _)
\* CheckHit classifying the signed time difference instead of its absolute value
CheckHitFromSigned(w, pitch, playLineX, i) ==
    LET song == w.ex[w.gs.Song]
    IN  IF i > Len(song.Notes) THEN w
        ELSE LET note == song.Notes[i]
                 timeDiff == note.Time - w.gs.CurrentTime
             IN  IF note.Hit THEN CheckHitFromSigned(w, pitch, playLineX, i + 1)
                 ELSE IF timeDiff > MissWindow
                      THEN CheckHitFromSigned(w, pitch, playLineX, i + 1)
                 ELSE IF timeDiff < -MissWindow
                      THEN CheckHitFromSigned(RegisterHit(w, i, HitMiss, playLineX, NoteY(note)),
                                              pitch, playLineX, i + 1)
                 ELSE IF notesMatch(pitch, song, note)
                      THEN RegisterHit(w, i, getHitQuality(timeDiff), playLineX, NoteY(note))
                 ELSE CheckHitFromSigned(w, pitch, playLineX, i + 1)

RECURSIVE CheckHitFromMismatchStops(_, _, _, _)
\* CheckHit that gives up at the first note of the window that does not match
CheckHitFromMismatchStops(w, pitch, playLineX, i) ==
    LET song == w.ex[w.gs.Song]
    IN  IF i > Len(song.Notes) THEN w
        ELSE LET note == song.Notes[i]
                 timeDiff == note.Time - w.gs.CurrentTime
             IN  IF note.Hit THEN CheckHitFromMismatchStops(w, pitch, playLineX, i + 1)
                 ELSE IF timeDiff > MissWindow
                      THEN CheckHitFromMismatchStops(w, pitch, playLineX, i + 1)
                 ELSE IF timeDiff < -MissWindow
                      THEN CheckHitFromMismatchStops(
                               RegisterHit(w, i, HitMiss, playLineX, NoteY(note)),
                               pitch, playLineX, i + 1)
                 ELSE IF notesMatch(pitch, song, note)
                      THEN RegisterHit(w, i, getHitQuality(Abs(timeDiff)),
                                       playLineX, NoteY(note))
                 ELSE w

RECURSIVE CheckHitFromStaleStops(_, _, _, _)
\* CheckHit that returns after registering a stale note as Miss
CheckHitFromStaleStops(w, pitch, playLineX, i) ==
    LET song == w.ex[w.gs.Song]
    IN  IF i > Len(song.Notes) THEN w
        ELSE LET note == song.Notes[i]
                 timeDiff == note.Time - w.gs.CurrentTime
             IN  IF note.Hit THEN CheckHitFromStaleStops(w, pitch, playLineX, i + 1)
                 ELSE IF timeDiff > MissWindow
                      THEN CheckHitFromStaleStops(w, pitch, playLineX, i + 1)
                 ELSE IF timeDiff < -MissWindow
                      THEN RegisterHit(w, i, HitMiss, playLineX, NoteY(note))
                 ELSE IF notesMatch(pitch, song, note)
                      THEN RegisterHit(w, i, getHitQuality(Abs(timeDiff)),
                                       playLineX, NoteY(note))
                 ELSE CheckHitFromStaleStops(w, pitch, playLineX, i + 1)

RECURSIVE CheckHitFrom(_, _, _, _)
\* the loop of HitDetector.CheckHit from note i on
CheckHitFrom(w, pitch, playLineX, i) ==
    LET song == w.ex[w.gs.Song]
    IN  IF i > Len(song.Notes) THEN w
        ELSE LET note == song.Notes[i]
                 timeDiff == note.Time - w.gs.CurrentTime
             IN  IF note.Hit THEN CheckHitFrom(w, pitch, playLineX, i + 1)
                 ELSE IF timeDiff > MissWindow
                      THEN CheckHitFrom(w, pitch, playLineX, i + 1)
                 ELSE IF timeDiff < -MissWindow
                      THEN CheckHitFrom(RegisterHit(w, i, HitMiss, playLineX, NoteY(note)),
                                        pitch, playLineX, i + 1)
                 ELSE IF notesMatch(pitch, song, note)
                      THEN RegisterHit(w, i, getHitQuality(Abs(timeDiff)),
                                       playLineX, NoteY(note))
                 ELSE CheckHitFrom(w, pitch, playLineX, i + 1)

\* HitDetector.CheckHit
CheckHit(w, pitch, playLineX) ==
    IF ~IsValid(pitch) THEN w ELSE CheckHitFrom(w, pitch, playLineX, 1)

RECURSIVE HitUpdateFromRejudge(_, _)
\* HitDetector.Update without the skip of notes that are already hit
HitUpdateFromRejudge(w, i) ==
    LET song == w.ex[w.gs.Song]
    IN  IF i > Len(song.Notes) THEN w
        ELSE LET note == song.Notes[i]
             IN  IF w.gs.CurrentTime - note.Time > MissWindow
                 THEN HitUpdateFromRejudge(RegisterHit(w, i, HitMiss, 0, NoteY(note)), i + 1)
                 ELSE HitUpdateFromRejudge(w, i + 1)

RECURSIVE HitUpdateFrom(_, _)
\* the loop of HitDetector.Update from note i on
HitUpdateFrom(w, i) ==
    LET song == w.ex[w.gs.Song]
    IN  IF i > Len(song.Notes) THEN w
        ELSE LET note == song.Notes[i]
             IN  IF note.Hit THEN HitUpdateFrom(w, i + 1)
                 ELSE IF w.gs.CurrentTime - note.Time > MissWindow
                      THEN HitUpdateFrom(RegisterHit(w, i, HitMiss, 0, NoteY(note)), i + 1)
                 ELSE HitUpdateFrom(w, i + 1)

\* HitDetector.Update
HitDetectorUpdate(w) == HitUpdateFrom(w, 1)

----------------------------------------------------------------------------
(* Web game store (apps/web: types/game.ts, stores/game.ts) *)

\* hitQualityText
hitQualityText(quality) ==
    CASE quality = HitPerfect -> "Perfect!"
      [] quality = HitGood -> "Good"
      [] quality = HitOK -> "OK"
      [] OTHER -> "Miss"

\* hitQualityScore with 20 base points for OK
hitQualityScoreOK20(quality) ==
    CASE quality = HitPerfect -> 100
      [] quality = HitGood -> 50
      [] quality = HitOK -> 20
      [] OTHER -> 0

\* hitQualityScore
hitQualityScore(quality) ==
    CASE quality = HitPerfect -> 100
      [] quality = HitGood -> 50
      [] quality = HitOK -> 25
      [] OTHER -> 0

\* getComboMultiplier without its first line (combo >= 50)
getComboMultiplierNoTop(combo) ==
    IF combo >= 25 THEN 3
    ELSE IF combo >= 10 THEN 2
    ELSE 1

\* getComboMultiplier
getComboMultiplier(combo) ==
    IF combo >= 50 THEN 4
    ELSE IF combo >= 25 THEN 3
    ELSE IF combo >= 10 THEN 2
    ELSE 1

\* calculateAccuracy; the number returned is the fraction num / den
calculateAccuracy(s) ==
    LET total == s.notesHit + s.notesMissed
    IN  IF total = 0 THEN [num |-> 100, den |-> 1]
        ELSE [num |-> s.notesHit * 100, den |-> total]

\* createInitialGameState
createInitialGameState ==
    [state |-> "MENU", currentTime |-> 0, score |-> 0, combo |-> 0,
     maxCombo |-> 0, notesHit |-> 0, notesMissed |-> 0, totalNotes |-> 0,
     isPlaying |-> FALSE, isFinished |-> FALSE, floatingText |-> <<>>]

\* selectSong(totalNotes)
selectSong(s, totalNotes) ==
    IF s.state # "MENU" THEN s
    ELSE [s EXCEPT !.state = "PRE_START", !.totalNotes = totalNotes,
                   !.isPlaying = FALSE, !.isFinished = FALSE]

\* startPlaying() that leaves currentTime alone
startPlayingKeepsTime(s) ==
    IF s.state # "PRE_START" THEN s
    ELSE [s EXCEPT !.state = "PLAYING", !.isPlaying = TRUE]

\* startPlaying()
startPlaying(s) ==
    IF s.state # "PRE_START" THEN s
    ELSE [s EXCEPT !.state = "PLAYING", !.isPlaying = TRUE, !.currentTime = 0]

\* endGame() that forgets to clear isPlaying
endGameKeepsPlaying(s) ==
    IF s.state # "PLAYING" THEN s
    ELSE [s EXCEPT !.state = "RESULTS", !.isFinished = TRUE]

\* endGame without the state guard
endGameAnyState(s) ==
    [s EXCEPT !.state = "RESULTS", !.isPlaying = FALSE, !.isFinished = TRUE]

\* endGame()
endGame(s) ==
    IF s.state # "PLAYING" THEN s
    ELSE [s EXCEPT !.state = "RESULTS", !.isPlaying = FALSE, !.isFinished = TRUE]

\* returnToMenu() that keeps the score
returnToMenuKeepsScore(s) ==
    LET reset == createInitialGameState
    IN  [s EXCEPT !.state = reset.state, !.currentTime = reset.currentTime,
                  !.combo = reset.combo,
                  !.maxCombo = reset.maxCombo, !.notesHit = reset.notesHit,
                  !.notesMissed = reset.notesMissed, !.totalNotes = reset.totalNotes,
                  !.isPlaying = reset.isPlaying, !.isFinished = reset.isFinished,
                  !.floatingText = <<>>]

\* returnToMenu()
returnToMenu(s) ==
    LET reset == createInitialGameState
    IN  [s EXCEPT !.state = reset.state, !.currentTime = reset.currentTime,
                  !.score = reset.score, !.combo = reset.combo,
                  !.maxCombo = reset.maxCombo, !.notesHit = reset.notesHit,
                  !.notesMissed = reset.notesMissed, !.totalNotes = reset.totalNotes,
                  !.isPlaying = reset.isPlaying, !.isFinished = reset.isFinished,
                  !.floatingText = <<>>]

\* updateTime(time)
updateTime(s, time) == [s EXCEPT !.currentTime = time]

\* clearFloatingText(olderThan)
clearFloatingText(s, olderThan) ==
    LET newer(ft) == ft.startTime > olderThan
    IN  [s EXCEPT !.floatingText = SelectSeq(@, newer)]

\* recordHit(quality, x, y); now is Date.now()
recordHit(s, quality, x, y, now) ==
    IF s.state # "PLAYING" THEN s
    ELSE LET combo == s.combo + 1
             multiplier == getComboMultiplier(combo)
             text == IF multiplier > 1
                     THEN hitQualityText(quality) \o " x" \o Digit(multiplier)
                     ELSE hitQualityText(quality)
         IN  [s EXCEPT !.combo = combo,
                       !.maxCombo = IF combo > @ THEN combo ELSE @,
                       !.score = @ + hitQualityScore(quality) * multiplier,
                       !.notesHit = @ + 1,
                       !.floatingText = Append(@, [text |-> text, x |-> x, y |-> y,
                                                   startTime |-> now,
                                                   quality |-> quality])]

\* recordMiss()
recordMiss(s) ==
    IF s.state # "PLAYING" THEN s
    ELSE [s EXCEPT !.combo = 0, !.notesMissed = @ + 1]

----------------------------------------------------------------------------
(* Audio input (internal/audio/input.go).  The buffers have BufferCells     *)
(* samples; the content of a sample is the number of the callback write     *)
(* that stored it (0 = the zeroes of make).  mu is "free" or the thread that *)
(* holds the mutex; cb* belong to the PortAudio callback thread and fr* to   *)
(* the frame thread.                                                         *)

\* samples per buffer (bufferSize)
BufferCells == 2

Cells == 1..BufferCells

\* NewAudioInput: both buffers zeroed, the mutex free, no call in progress;
\* returned is the content of the slice returned by the last GetBuffer and
\* completed the number of the last write whose processAudio has returned
NewAudioInput ==
    [buffer |-> [i \in Cells |-> 0], latest |-> [i \in Cells |-> 0], mu |-> "free",
     cbPc |-> "idle", cbIn |-> 0, cbIdx |-> 1,
     frPc |-> "idle", frIdx |-> 1,
     completed |-> 0, returned |-> <<>>, returnedLog |-> <<>>]

\* copy that stores nothing
CopyCellNothing(dst, src, i) == dst

\* copy(dst, src), sample i
CopyCell(dst, src, i) == [dst EXCEPT ![i] = src[i]]

\* Lock of a mutex that excludes nobody
MutexFreeAlways(a) == TRUE

\* a.mu.Lock() can return: sync.Mutex is free
MutexFree(a) == a.mu = "free"

----------------------------------------------------------------------------
(* Web songs store (stores/songs.ts).  The note-state objects live in heap;  *)
(* a note is given by the reference (index in heap) of its state object, a   *)
(* chart by the sequence of its notes.                                       *)

\* createTabNoteState
createTabNoteState == [hit |-> FALSE, hitQuality |-> 0, hitTime |-> 0]

\* createSongsStore: no exercises, no current song
createSongsStore ==
    [exercises |-> <<>>, hasCurrentSong |-> FALSE, currentSong |-> <<>>,
     selectedIndex |-> -1, heap |-> <<>>]

\* n new state objects appended to the heap
Allocate(heap, n) == heap \o [k \in 1..n |-> createTabNoteState]

\* the references of n objects allocated on a heap of size base
NewRefs(base, n) == [k \in 1..n |-> base + k]

RECURSIVE loadExercisesFrom(_, _)
\* loadExercises: every raw exercise becomes a song whose notes have their
\* own new state objects (rawExerciseToSong, createTabNote); sizes gives the
\* number of notes of each exercise
loadExercisesFrom(st, sizes) ==
    IF sizes = <<>> THEN st
    ELSE loadExercisesFrom(
             [st EXCEPT !.exercises = Append(@, NewRefs(Len(st.heap), Head(sizes))),
                        !.heap = Allocate(@, Head(sizes))],
             Tail(sizes))

loadExercises(st, sizes) == loadExercisesFrom([st EXCEPT !.exercises = <<>>], sizes)

\* selectSong whose copies of the notes keep the state objects of the template
selectSongSharedNotes(st, index) ==
    IF index < 0 \/ index >= Len(st.exercises)
    THEN [st EXCEPT !.hasCurrentSong = FALSE, !.currentSong = <<>>,
                    !.selectedIndex = -1]
    ELSE [st EXCEPT !.selectedIndex = index,
                    !.hasCurrentSong = TRUE,
                    !.currentSong = st.exercises[index + 1]]

\* songs.selectSong(index), index 0-based
songsSelectSong(st, index) ==
    IF index < 0 \/ index >= Len(st.exercises)
    THEN [st EXCEPT !.hasCurrentSong = FALSE, !.currentSong = <<>>,
                    !.selectedIndex = -1]
    ELSE LET n == Len(st.exercises[index + 1])
         IN  [st EXCEPT !.selectedIndex = index,
                        !.hasCurrentSong = TRUE,
                        !.currentSong = NewRefs(Len(st.heap), n),
                        !.heap = Allocate(@, n)]

\* resetNoteStates
resetNoteStates(st) ==
    IF ~st.hasCurrentSong THEN st
    ELSE LET n == Len(st.currentSong)
         IN  [st EXCEPT !.currentSong = NewRefs(Len(st.heap), n),
                        !.heap = Allocate(@, n)]

\* a judgment written to currentSong.notes[i].state (i 1-based)
writeNoteState(st, i, quality, time) ==
    [st EXCEPT !.heap[st.currentSong[i]] =
                   [hit |-> TRUE, hitQuality |-> quality, hitTime |-> time]]

----------------------------------------------------------------------------
(* Songs *)

Note(t, string, fret, duration) ==
    [Time |-> t, String |-> string, Fret |-> fret, Duration |-> duration,
     Hit |-> FALSE, HitQuality |-> HitMiss, HitTime |-> 0]

\* sort.Slice with the comparison reversed: latest note first
SortByTimeDescending(notes) ==
    LET before(i) == {j \in DOMAIN notes :
                         \/ notes[j].Time > notes[i].Time
                         \/ (notes[j].Time = notes[i].Time /\ j < i)}
    IN  [r \in DOMAIN notes |->
            notes[CHOOSE i \in DOMAIN notes : Cardinality(before(i)) = r - 1]]

\* LoadSong without the sort: the notes stay in the order of the file
SortByTimeFileOrder(notes) == notes

\* sort.Slice(song.Notes, Time less) of LoadSong: the note at index i goes to
\* the position given by the number of notes that come before it
SortByTime(notes) ==
    LET before(i) == {j \in DOMAIN notes :
                         \/ notes[j].Time < notes[i].Time
                         \/ (notes[j].Time = notes[i].Time /\ j < i)}
    IN  [r \in DOMAIN notes |->
            notes[CHOOSE i \in DOMAIN notes : Cardinality(before(i)) = r - 1]]

\* LoadSong of a file that gives every note its time and duration (no BPM
\* conversion) and names the tuning
LoadSong(notes, tuning) ==
    LET sorted == SortByTime(notes)
    IN  [Notes |-> sorted, Tuning |-> tuning, Duration |-> CalculateDuration(sorted)]

\* Text is a sequence of characters, each a string of length 1.
\* strings.ToLower and strings.ToUpper on the characters of tuning texts
ToLowerChar(c) ==
    CASE c = "A" -> "a" [] c = "B" -> "b" [] c = "C" -> "c" [] c = "D" -> "d"
      [] c = "E" -> "e" [] c = "F" -> "f" [] c = "G" -> "g" [] OTHER -> c

ToUpperChar(c) ==
    CASE c = "a" -> "A" [] c = "b" -> "B" [] c = "c" -> "C" [] c = "d" -> "D"
      [] c = "e" -> "E" [] c = "f" -> "F" [] c = "g" -> "G" [] OTHER -> c

RECURSIVE Join(_)
\* the Go string made of the characters
Join(chars) == IF chars = <<>> THEN "" ELSE Head(chars) \o Join(Tail(chars))

\* int(c - '0') for a digit c
DigitValue(c) == CHOOSE d \in 0..9 : Digit(d) = c

\* ParseTuning of a custom text; parts are the comma-separated entries of the
\* text as written (a text with a comma is no key of TuningsByName).  The
\* whole text is lower-cased first, then the name of every entry is
\* upper-cased
ParseTuning(parts) ==
    LET lowered == [i \in DOMAIN parts |->
                       [k \in DOMAIN parts[i] |-> ToLowerChar(parts[i][k])]]
    IN  IF Len(lowered) >= 4
        THEN [i \in DOMAIN lowered |->
                 LET part == lowered[i]
                 IN  IF Len(part) >= 2
                     THEN [Note |-> Join([k \in 1..(Len(part) - 1) |->
                                             ToUpperChar(part[k])]),
                           Octave |-> DigitValue(part[Len(part)])]
                     ELSE [Note |-> "", Octave |-> 0]]
        ELSE TuningStandard

\* validateStringIndex: the value, or the RangeError it throws
validateStringIndex(value) ==
    IF value >= 0 /\ value <= 4 THEN [throws |-> FALSE, value |-> value]
    ELSE [throws |-> TRUE, value |-> value]

\* rawExerciseToSong of an exercise whose notes are given after the beat
\* conversion, with the tuning that resolveTuning finds for its name: the
\* song, or the RangeError of validateStringIndex; the notes keep their order
rawExerciseToSong(notes, tuning) ==
    IF \E i \in DOMAIN notes : validateStringIndex(notes[i].String).throws
    THEN [error |-> "RangeError"]
    ELSE LET ends == {notes[i].Time + notes[i].Duration : i \in DOMAIN notes}
             lastNoteTime == IF notes = <<>> THEN 0
                             ELSE CHOOSE m \in ends : \A x \in ends : x <= m
         IN  [error |-> "", Notes |-> notes, Tuning |-> tuning,
              Duration |-> lastNoteTime + 2000]

\* createEMinorScale: eight notes one beat (0.75 s at 80 BPM) apart, each 0.9
\* beat long, built in this order without a sort; standard tuning
createEMinorScale ==
    LET beatDuration == 750
        notes == << Note(0 * beatDuration, StringE, 0, 675),
                    Note(1 * beatDuration, StringE, 2, 675),
                    Note(2 * beatDuration, StringE, 3, 675),
                    Note(3 * beatDuration, StringE, 5, 675),
                    Note(4 * beatDuration, StringA, 0, 675),
                    Note(5 * beatDuration, StringA, 2, 675),
                    Note(6 * beatDuration, StringA, 3, 675),
                    Note(7 * beatDuration, StringA, 5, 675) >>
    IN  [Notes |-> notes, Tuning |-> TuningStandard,
         Duration |-> CalculateDuration(notes)]

\* The songs loaded by NewApp in the application runs of the model
LoadedExercises ==
    << LoadSong(<< Note(300, StringE, 0, 100), Note(400, StringE, 0, 100) >>,
                TuningStandard),
       LoadSong(<< >>, TuningStandard) >>

\* Samples of the pitch detector (PitchDetector.Detect is a black box):
\* silence, E1 at 41.2 Hz with confidence 0.5 and 0.9, F1 with confidence 0.9,
\* and a pitch halfway between E1 and F1
PitchSilence == [Frequency |-> 0, Confidence |-> 0, Note |-> ""]

PitchFaintE1 == [Frequency |-> 2799, Confidence |-> 50, Note |-> "E"]

PitchE1 == [Frequency |-> 2799, Confidence |-> 90, Note |-> "E"]

PitchF1 == [Frequency |-> 2900, Confidence |-> 90, Note |-> "F"]

PitchBetween == [Frequency |-> 2850, Confidence |-> 90, Note |-> "F"]

\* Samples delivered to the application runs
Pitches == {PitchSilence, PitchFaintE1, PitchE1, PitchF1}

\* Time between two frames
FrameSteps == {100, 400}

----------------------------------------------------------------------------
(* Desktop application (main.go); a = the fields of App *)

AppOf(exs, sel, g, st, since) ==
    [exercises |-> exs, selectedIndex |-> sel, gameState |-> g, state |-> st,
     sinceStart |-> since]

\* App.SelectExercise (index is 1-based)
SelectExercise(a, index) ==
    IF index >= 1 /\ index <= Len(a.exercises)
    THEN [a EXCEPT !.selectedIndex = index,
                   !.gameState = NewGameState(index, a.exercises),
                   !.sinceStart = 0]
    ELSE a

\* App.StartGame
StartGame(a) ==
    [a EXCEPT !.state = StatePlaying, !.gameState = Start(@), !.sinceStart = 0]

\* App.GoToMenu
GoToMenu(a) == SelectExercise([a EXCEPT !.state = StateMenu], a.selectedIndex)

\* App.Update with the miss sweep run only for a valid sample
AppUpdateSweepIfValid(a, pitch) ==
    IF a.state # StatePlaying THEN a
    ELSE LET g1 == GameStateUpdate(a.gameState, a.exercises, a.sinceStart)
             w1 == CheckHit([ex |-> a.exercises, gs |-> g1], pitch, PlayLineX)
             w2 == IF IsValid(pitch) THEN HitDetectorUpdate(w1) ELSE w1
         IN  [a EXCEPT !.exercises = w2.ex,
                       !.gameState = w2.gs,
                       !.state = IF w2.gs.IsFinished THEN StateResults ELSE @,
                       !.sinceStart = IF w2.gs.IsPlaying THEN @ ELSE 0]

\* App.Update without the early return outside Playing
AppUpdateAnyState(a, pitch) ==
    LET g1 == GameStateUpdate(a.gameState, a.exercises, a.sinceStart)
        w1 == CheckHit([ex |-> a.exercises, gs |-> g1], pitch, PlayLineX)
        w2 == HitDetectorUpdate(w1)
    IN  [a EXCEPT !.exercises = w2.ex,
                  !.gameState = w2.gs,
                  !.state = IF w2.gs.IsFinished THEN StateResults ELSE @,
                  !.sinceStart = IF w2.gs.IsPlaying THEN @ ELSE 0]

\* App.Update after the pitch detection
AppUpdate(a, pitch) ==
    IF a.state # StatePlaying THEN a
    ELSE LET g1 == GameStateUpdate(a.gameState, a.exercises, a.sinceStart)
             w1 == CheckHit([ex |-> a.exercises, gs |-> g1], pitch, PlayLineX)
             w2 == HitDetectorUpdate(w1)
         IN  [a EXCEPT !.exercises = w2.ex,
                       !.gameState = w2.gs,
                       !.state = IF w2.gs.IsFinished THEN StateResults ELSE @,
                       !.sinceStart = IF w2.gs.IsPlaying THEN @ ELSE 0]

\* the noteJustPlayed switch with a Results case that starts the game again
OnNoteJustPlayedRestart(a, lastDetected) ==
    CASE a.state = StateMenu ->
            IF lastDetected THEN [a EXCEPT !.state = StatePreStart]
            ELSE SelectExercise(a, (a.selectedIndex % Len(a.exercises)) + 1)
      [] a.state = StatePreStart -> StartGame(a)
      [] a.state = StateResults -> StartGame(a)
      [] OTHER -> a

\* the noteJustPlayed switch of the FrameEvent handler
OnNoteJustPlayed(a, lastDetected) ==
    CASE a.state = StateMenu ->
            IF lastDetected THEN [a EXCEPT !.state = StatePreStart]
            ELSE SelectExercise(a, (a.selectedIndex % Len(a.exercises)) + 1)
      [] a.state = StatePreStart -> StartGame(a)
      [] a.state = StateResults -> GoToMenu(a)
      [] OTHER -> a

\* the ages of the floating scores after dt (saturated above the lifetime)
AgeFloats(ft, dt) ==
    [i \in DOMAIN ft |-> [ft[i] EXCEPT !.Age = Min(@ + dt, FloatLifetime + 1)]]

\* dt of time passes: every time.Since value grows by dt
Elapse(a, dt) ==
    [a EXCEPT !.gameState.FloatingText = AgeFloats(@, dt),
              !.sinceStart = IF a.gameState.IsPlaying THEN @ + dt ELSE 0]

\* One FrameEvent of the window loop, dt after the previous one; pitch is the
\* result of PitchDetector.Detect in App.Update
Frame(dt, pitch) ==
    LET a0 == Elapse(AppOf(exercises, selectedIndex, gameState, state, sinceStart), dt)
        since == Min(sinceLastNote + dt, NoteCooldown + 1)
        noteDetected == IsValid(currentPitch)
        noteJustPlayed == noteDetected /\ since > NoteCooldown
        a1 == IF noteJustPlayed THEN OnNoteJustPlayed(a0, lastNoteDetected) ELSE a0
        a2 == AppUpdate(a1, pitch)
    IN  /\ sinceLastNote' = IF noteJustPlayed THEN 0 ELSE since
        /\ lastNoteDetected' = noteDetected
        /\ currentPitch' = pitch
        /\ exercises' = a2.exercises
        /\ selectedIndex' = a2.selectedIndex
        /\ gameState' = a2.gameState
        /\ state' = a2.state
        /\ sinceStart' = a2.sinceStart
        /\ op' = "Frame"
        /\ UNCHANGED <<game, input, output, script, judged, dateNow, audio, songs>>

FrameMenu == state = StateMenu /\ \E dt \in FrameSteps, p \in Pitches : Frame(dt, p)

FramePreStart == state = StatePreStart /\ \E dt \in FrameSteps, p \in Pitches : Frame(dt, p)

FramePlaying == state = StatePlaying /\ \E dt \in FrameSteps, p \in Pitches : Frame(dt, p)

FrameResults == state = StateResults /\ \E dt \in FrameSteps, p \in Pitches : Frame(dt, p)

\* NewApp
Init ==
    /\ exercises = LoadedExercises
    /\ selectedIndex = 1
    /\ gameState = NewGameState(1, LoadedExercises)
    /\ state = StateMenu
    /\ lastNoteDetected = FALSE
    /\ currentPitch = PitchSilence
    /\ sinceStart = 0
    /\ sinceLastNote = NoteCooldown + 1
    /\ game = createInitialGameState
    /\ input = "none"
    /\ output = "none"
    /\ script = <<>>
    /\ judged = <<>>
    /\ dateNow = 0
    /\ audio = NewAudioInput
    /\ songs = createSongsStore
    /\ op = "NewApp"

Next == FrameMenu \/ FramePreStart \/ FramePlaying \/ FrameResults

Spec == Init /\ [][Next]_vars

\* The 60 FPS ticker of the window loop invalidates the window for ever, so a
\* FrameEvent always comes while the application is Playing: weak fairness of
\* FramePlaying, WF_vars(FramePlaying), written out as
\* []<>~ENABLED <<FramePlaying>>_vars \/ []<><<FramePlaying>>_vars.  The frame
\* handler has no guard but the state and every frame of a Playing session
\* advances its clock, so FramePlaying is enabled exactly in the Playing
\* states, and under [Next]_vars a step from a Playing state that changes vars
\* is a FramePlaying step.
SpecLive ==
    Spec /\ ([]<>(state # StatePlaying) \/ []<><<state = StatePlaying>>_vars)

----------------------------------------------------------------------------
(* The session of either implementation: the desktop application run by its   *)
(* frames, or the web game store with its methods called in any order.        *)

\* latest Date.now() of a run of the web store
MaxNow == 1500

\* largest number of judgments recorded by the web store in one game
MaxWebJudgments == 2

\* the run drives the desktop application
DesktopDriven == op \in {"NewApp", "Frame"}

\* createGameStore
WebInit ==
    /\ exercises = LoadedExercises
    /\ selectedIndex = 1
    /\ gameState = NewGameState(1, LoadedExercises)
    /\ state = StateMenu
    /\ lastNoteDetected = FALSE
    /\ currentPitch = PitchSilence
    /\ sinceStart = 0
    /\ sinceLastNote = NoteCooldown + 1
    /\ game = createInitialGameState
    /\ input = "none"
    /\ output = "none"
    /\ script = <<>>
    /\ judged = <<>>
    /\ dateNow = 0
    /\ audio = NewAudioInput
    /\ songs = createSongsStore
    /\ op = "createGameStore"

\* half a second passes on the web page
WebTick ==
    /\ dateNow + 500 <= MaxNow
    /\ dateNow' = dateNow + 500
    /\ input' = "none"
    /\ op' = "tick"
    /\ UNCHANGED <<appVars, game, output, script, judged, audio, songs>>

WebSelectSong ==
    \E totalNotes \in {0, MaxWebJudgments} :
        /\ game' = selectSong(game, totalNotes)
        /\ input' = totalNotes
        /\ op' = "selectSong"
        /\ UNCHANGED <<appVars, output, script, judged, dateNow, audio, songs>>

WebStartPlaying ==
    /\ game' = startPlaying(game)
    /\ input' = "none"
    /\ op' = "startPlaying"
    /\ UNCHANGED <<appVars, output, script, judged, dateNow, audio, songs>>

WebEndGame ==
    /\ game' = endGame(game)
    /\ input' = "none"
    /\ op' = "endGame"
    /\ UNCHANGED <<appVars, output, script, judged, dateNow, audio, songs>>

WebReturnToMenu ==
    /\ game' = returnToMenu(game)
    /\ input' = "none"
    /\ op' = "returnToMenu"
    /\ UNCHANGED <<appVars, output, script, judged, dateNow, audio, songs>>

WebRecordHit ==
    \E q \in {HitOK, HitPerfect} :
        /\ game.state = "PLAYING" => game.notesHit + game.notesMissed < MaxWebJudgments
        /\ game' = recordHit(game, q, PlayLineX, 80, dateNow)
        /\ input' = q
        /\ op' = "recordHit"
        /\ UNCHANGED <<appVars, output, script, judged, dateNow, audio, songs>>

WebRecordMiss ==
    /\ game.state = "PLAYING" => game.notesHit + game.notesMissed < MaxWebJudgments
    /\ game' = recordMiss(game)
    /\ input' = "none"
    /\ op' = "recordMiss"
    /\ UNCHANGED <<appVars, output, script, judged, dateNow, audio, songs>>

WebUpdateTime ==
    /\ game' = updateTime(game, dateNow)
    /\ input' = dateNow
    /\ op' = "updateTime"
    /\ UNCHANGED <<appVars, output, script, judged, dateNow, audio, songs>>

\* clearFloatingText(Date.now() - 1000)
WebClearFloatingText ==
    /\ game' = clearFloatingText(game, dateNow - FloatLifetime)
    /\ input' = dateNow - FloatLifetime
    /\ op' = "clearFloatingText"
    /\ UNCHANGED <<appVars, output, script, judged, dateNow, audio, songs>>

WebNext ==
    \/ WebTick
    \/ WebSelectSong
    \/ WebStartPlaying
    \/ WebEndGame
    \/ WebReturnToMenu
    \/ WebRecordHit
    \/ WebRecordMiss
    \/ WebUpdateTime
    \/ WebClearFloatingText

SessionInit == Init \/ WebInit

SessionNext == (DesktopDriven /\ Next) \/ (~DesktopDriven /\ WebNext)

SpecSession == SessionInit /\ [][SessionNext]_vars

----------------------------------------------------------------------------
(* The hit detector driven directly: GameState.Update, HitDetector.CheckHit   *)
(* and HitDetector.Update called in any order, at any times, on a started     *)
(* game of one song.                                                          *)

\* one note E1 at 2.0 s
SongOneNote == LoadSong(<< Note(2000, StringE, 0, 0) >>, TuningStandard)

\* F1, E1, E1 100 ms apart: several notes inside the judging window at once;
\* the file lists the second note first
SongCluster ==
    LoadSong(<< Note(2100, StringE, 0, 0), Note(2000, StringE, 1, 0),
                Note(2200, StringE, 0, 0) >>, TuningStandard)

\* a string index outside the tuning, a fret beyond octave 4, a flat open string
SongOdd ==
    LoadSong(<< Note(2000, 4, 0, 0), Note(2050, StringG, 36, 0),
                Note(2100, StringE, 0, 0), Note(2150, StringE, 1, 0) >>,
             TuningHalfStepDown)

ScanSongs == {SongOneNote, SongCluster, SongOdd, createEMinorScale}

ScanPitches == {PitchSilence, PitchFaintE1, PitchE1, PitchF1, PitchBetween}

\* Values of time.Since(StartTime) at the calls of GameState.Update
ScanTimes ==
    {1699, 1700, 1850, 1900, 1950, 2000, 2030, 2050, 2051, 2100, 2101, 2120,
     2150, 2151, 2300, 2301, 2350, 2401, 2501}

ScanInit ==
    /\ \E s \in ScanSongs : exercises = <<s>>
    /\ selectedIndex = 1
    /\ gameState = Start(NewGameState(1, exercises))
    /\ state = StatePlaying
    /\ lastNoteDetected = FALSE
    /\ currentPitch = PitchSilence
    /\ sinceStart = 0
    /\ sinceLastNote = 0
    /\ game = createInitialGameState
    /\ input = "none"
    /\ output = "none"
    /\ script = <<>>
    /\ judged = <<>>
    /\ dateNow = 0
    /\ audio = NewAudioInput
    /\ songs = createSongsStore
    /\ op = "Start"

\* GameState.Update called when time.Since(StartTime) = t
ScanGameStateUpdate ==
    \E t \in ScanTimes :
        /\ gameState.IsPlaying
        /\ t > sinceStart
        /\ LET a == Elapse(AppOf(exercises, selectedIndex, gameState, state, sinceStart),
                           t - sinceStart)
               g == GameStateUpdate(a.gameState, exercises, t)
           IN  /\ gameState' = g
               /\ sinceStart' = IF g.IsPlaying THEN t ELSE 0
        /\ op' = "GameStateUpdate"
        /\ UNCHANGED <<exercises, selectedIndex, state, lastNoteDetected,
                       currentPitch, sinceLastNote, game, input, output, script, judged, dateNow, audio, songs>>

\* HitDetector.CheckHit(pitch, playLineX)
ScanCheckHit ==
    \E p \in ScanPitches :
        LET w == CheckHit([ex |-> exercises, gs |-> gameState], p, PlayLineX)
        IN  /\ exercises' = w.ex
            /\ gameState' = w.gs
            /\ currentPitch' = p
            /\ op' = "CheckHit"
            /\ UNCHANGED <<selectedIndex, state, lastNoteDetected, sinceStart,
                           sinceLastNote, game, input, output, script, judged, dateNow, audio, songs>>

\* HitDetector.Update()
ScanHitDetectorUpdate ==
    LET w == HitDetectorUpdate([ex |-> exercises, gs |-> gameState])
    IN  /\ exercises' = w.ex
        /\ gameState' = w.gs
        /\ op' = "HitDetectorUpdate"
        /\ UNCHANGED <<selectedIndex, state, lastNoteDetected, currentPitch,
                       sinceStart, sinceLastNote, game, input, output, script, judged, dateNow, audio, songs>>

ScanNext == ScanGameStateUpdate \/ ScanCheckHit \/ ScanHitDetectorUpdate

SpecScan == ScanInit /\ [][ScanNext]_vars

----------------------------------------------------------------------------
(* Properties of the hit detector *)

ActiveSong == exercises[gameState.Song]

ActiveNotes == ActiveSong.Notes

\* the notes that the step marks as hit
NewlyHit == {i \in DOMAIN ActiveNotes : ~ActiveNotes[i].Hit /\ ActiveNotes'[i].Hit}

\* note i lies inside the judging window of the current time
InWindow(i) == Abs(ActiveNotes[i].Time - gameState.CurrentTime) <= 300

\* the unhit notes inside the judging window whose pitch matches p
Matching(p) ==
    {i \in DOMAIN ActiveNotes :
        ~ActiveNotes[i].Hit /\ InWindow(i) /\ notesMatch(p, ActiveSong, ActiveNotes[i])}

\* C1: one call of HitDetector.CheckHit marks at most one note inside the
\* +/-0.300 s judging window as hit (notes older than the window are resolved
\* as Miss without a pitch match and are not counted).
C1_AtMostOneMatchPerCheckHit ==
    [][op' = "CheckHit" => Cardinality({i \in NewlyHit : InWindow(i)}) <= 1]_vars

\* C1 witness: after a CheckHit one E1 note was hit at the current time and
\* another unhit E1 note inside the window matches the same sample.
C1_Witness ==
    /\ op = "CheckHit"
    /\ \E i, j \in DOMAIN ActiveNotes :
          /\ ActiveNotes[i].Hit /\ ActiveNotes[i].HitTime = gameState.CurrentTime
          /\ InWindow(i)
          /\ j \in Matching(currentPitch)

\* C2: once a note is hit, its hit flag, quality and hit time never change
\* again, and every scanner step changes NotesHit + NotesMissed by exactly the
\* number of notes it marks: a step that marks no note leaves score, combo,
\* max combo and the counters alone, so no note is registered twice.
C2_JudgedOnce ==
    [][/\ \A i \in DOMAIN ActiveNotes :
             ActiveNotes[i].Hit => ActiveNotes'[i] = ActiveNotes[i]
       /\ (gameState'.NotesHit + gameState'.NotesMissed)
             - (gameState.NotesHit + gameState.NotesMissed) = Cardinality(NewlyHit)
       /\ NewlyHit = {} =>
             /\ gameState'.Score = gameState.Score
             /\ gameState'.Combo = gameState.Combo
             /\ gameState'.MaxCombo = gameState.MaxCombo
             /\ gameState'.NotesHit = gameState.NotesHit
             /\ gameState'.NotesMissed = gameState.NotesMissed]_vars

\* C2 witness: a scanner call ran at a time when a note judged earlier is more
\* than 0.300 s old and a matching sample is present, and the note kept the
\* judgment of its hit time.
C2_Witness ==
    /\ op \in {"CheckHit", "HitDetectorUpdate"}
    /\ IsValid(currentPitch)
    /\ \E i \in DOMAIN ActiveNotes :
          /\ ActiveNotes[i].Hit
          /\ ActiveNotes[i].HitQuality = HitPerfect
          /\ ActiveNotes[i].HitTime < gameState.CurrentTime
          /\ gameState.CurrentTime - ActiveNotes[i].Time > 300
          /\ notesMatch(currentPitch, ActiveSong, ActiveNotes[i])

\* C4: CheckHit with a sample that is not valid changes no note and no field
\* of the game state.
C4_InvalidSampleJudgesNothing ==
    [][(op' = "CheckHit" /\ ~(currentPitch'.Note # "" /\ currentPitch'.Confidence > 50))
          => (exercises' = exercises /\ gameState' = gameState)]_vars

\* C4 witness: CheckHit ran with a sample of confidence 0.5 whose frequency
\* matches an unhit note inside the judging window.
C4_Witness ==
    /\ op = "CheckHit"
    /\ currentPitch.Note # "" /\ currentPitch.Confidence = 50
    /\ Matching(currentPitch) # {}

\* the timing tiers of the scoring table
TierOf(offset) ==
    IF offset <= 50 THEN HitPerfect
    ELSE IF offset <= 100 THEN HitGood
    ELSE IF offset <= 150 THEN HitOK
    ELSE HitMiss

\* the first note, in chart order, of a non-empty set of note indices
First(S) == CHOOSE i \in S : \A j \in S : i <= j

\* CheckHit is called with sample p on the single E1 note of SongOneNote, not
\* yet hit, at current time t
SoleNoteScenario(p, t) ==
    /\ op' = "CheckHit"
    /\ currentPitch' = p
    /\ exercises = <<SongOneNote>>
    /\ gameState.CurrentTime = t

\* C5: when CheckHit gets a valid sample that matches an unhit note inside the
\* judging window, the first such note in chart order is registered in that
\* call with the tier of |note.Time - CurrentTime| and the current time as hit
\* time; the sole note at 2.0 s matched at 2.03 s becomes Perfect, the score
\* grows by 100 and the combo is 1.
C5_MatchRegistersClassifiedHit ==
    [][/\ (op' = "CheckHit" /\ currentPitch'.Note # "" /\ currentPitch'.Confidence > 50
              /\ Matching(currentPitch') # {}) =>
            LET i == First(Matching(currentPitch'))
            IN  /\ ActiveNotes'[i].Hit
                /\ ActiveNotes'[i].HitQuality =
                      TierOf(Abs(ActiveNotes[i].Time - gameState.CurrentTime))
                /\ ActiveNotes'[i].HitTime = gameState.CurrentTime
       /\ SoleNoteScenario(PitchE1, 2030) =>
            /\ ActiveNotes'[1].Hit /\ ActiveNotes'[1].HitQuality = HitPerfect
            /\ gameState'.Score = gameState.Score + 100
            /\ gameState'.Combo = 1]_vars

\* C5 witness: the sole note at 2.0 s was hit at 2.03 s.
C5_Witness ==
    /\ op = "CheckHit"
    /\ exercises[1].Notes = <<[SongOneNote.Notes[1] EXCEPT
                                  !.Hit = TRUE, !.HitQuality = HitPerfect,
                                  !.HitTime = 2030]>>
    /\ gameState.Score = 100 /\ gameState.Combo = 1

\* C7 as claimed: the sole note at 2.0 s matched at 2.12 s is registered Good
\* and adds 50 to the score.
C7_Claimed_GoodAt120ms ==
    [][SoleNoteScenario(PitchE1, 2120) =>
          /\ ActiveNotes'[1].Hit /\ ActiveNotes'[1].HitQuality = HitGood
          /\ gameState'.Score = gameState.Score + 50]_vars

\* C7 amended: the sole note at 2.0 s matched at 2.12 s (offset 0.120 s, above
\* the 0.100 s Good window) is registered OK and adds 25 to the score.
C7_OKAt120ms ==
    [][SoleNoteScenario(PitchE1, 2120) =>
          /\ ActiveNotes'[1].Hit /\ ActiveNotes'[1].HitQuality = HitOK
          /\ gameState'.Score = gameState.Score + 25]_vars

\* C7 witness: the sole note at 2.0 s was hit at 2.12 s.
C7_Witness ==
    /\ op = "CheckHit"
    /\ exercises[1].Notes = <<[SongOneNote.Notes[1] EXCEPT
                                  !.Hit = TRUE, !.HitQuality = HitOK,
                                  !.HitTime = 2120]>>
    /\ gameState.Score = 25

----------------------------------------------------------------------------
(* Pure functions applied to inputs drawn from bounded sets *)

\* largest time offset given to the timing classifier, in ms
MaxOffset == 400

PureInit ==
    /\ exercises = LoadedExercises
    /\ selectedIndex = 1
    /\ gameState = NewGameState(1, LoadedExercises)
    /\ state = StateMenu
    /\ lastNoteDetected = FALSE
    /\ currentPitch = PitchSilence
    /\ sinceStart = 0
    /\ sinceLastNote = NoteCooldown + 1
    /\ game = createInitialGameState
    /\ input \in 0..MaxOffset
    /\ output = "none"
    /\ script = <<>>
    /\ judged = <<>>
    /\ dateNow = 0
    /\ audio = NewAudioInput
    /\ songs = createSongsStore
    /\ op = "input"

\* HitDetector.getHitQuality(input)
ApplyGetHitQuality ==
    /\ op = "input"
    /\ input \in 0..MaxOffset
    /\ output' = getHitQuality(input)
    /\ op' = "getHitQuality"
    /\ UNCHANGED <<appVars, game, input, script, judged, dateNow, audio, songs>>

\* largest combo given to the combo multiplier ladders
MaxComboInput == 60

\* the ladder of GameState.RegisterHit and getComboMultiplier, applied to the
\* combo input and to the next combo
ApplyComboMultiplier ==
    /\ op = "input"
    /\ input \in 0..MaxComboInput
    /\ output' = [desktop |-> Multiplier(input),
                  web |-> getComboMultiplier(input),
                  desktopNext |-> Multiplier(input + 1),
                  webNext |-> getComboMultiplier(input + 1)]
    /\ op' = "comboMultiplier"
    /\ UNCHANGED <<appVars, game, input, script, judged, dateNow, audio, songs>>

\* largest string index given to the loaders
MaxStringInput == 5

\* LoadSong and rawExerciseToSong applied to a chart of two notes, the second
\* on the string given by the input, with a 4-string or the 5-string tuning
ApplyLoaders ==
    /\ op = "input"
    /\ input \in 0..MaxStringInput
    /\ \E tuning \in {TuningStandard, TuningHalfStepDown, Tuning5StringStandard} :
          LET notes == << Note(0, StringE, 0, 500), Note(500, input, 0, 500) >>
          IN  output' = [desktop |-> LoadSong(notes, tuning),
                         web |-> rawExerciseToSong(notes, tuning)]
    /\ op' = "loaders"
    /\ UNCHANGED <<appVars, game, input, script, judged, dateNow, audio, songs>>

\* largest fret given to the note derivation
MaxFretInput == 30

\* the tunings that both implementations know by name
NamedTunings ==
    {TuningStandard, TuningDropD, TuningHalfStepDown, TuningFullStepDown,
     Tuning5StringStandard}

\* Song.NoteAt and Song.OctaveAt of a note on a string of the song's tuning
\* at the fret given by the input, and getNoteNameForTab and getOctaveForTab
\* of the same position
ApplyNoteForTab ==
    /\ op = "input"
    /\ input \in 0..MaxFretInput
    /\ \E tuning \in NamedTunings :
          \E string \in 0..(Len(tuning) - 1) :
              LET song == LoadSong(<< Note(0, string, input, 0) >>, tuning)
              IN  output' = [tuning |-> tuning, string |-> string,
                             desktopNote |-> NoteAt(song, song.Notes[1]),
                             desktopOctave |-> OctaveAt(song, song.Notes[1]),
                             webNote |-> getNoteNameForTab(string, input, tuning),
                             webOctave |-> getOctaveForTab(string, input, tuning)]
    /\ op' = "noteForTab"
    /\ UNCHANGED <<appVars, game, input, script, judged, dateNow, audio, songs>>

\* the note names of the semitone table, as text
WrittenNames ==
    {<<"C">>, <<"C", "#">>, <<"D", "b">>, <<"D">>, <<"D", "#">>, <<"E", "b">>,
     <<"E">>, <<"F", "b">>, <<"F">>, <<"F", "#">>, <<"G", "b">>, <<"G">>,
     <<"G", "#">>, <<"A", "b">>, <<"A">>, <<"A", "#">>, <<"B", "b">>, <<"B">>,
     <<"C", "b">>}

\* largest octave digit written in a custom tuning
MaxOctaveInput == 4

\* ParseTuning of "<name><octave>,D2,A1,E1" and of the same text with a fifth
\* entry "B0"
ApplyParseTuning ==
    /\ op = "input"
    /\ input = 0
    /\ \E name \in WrittenNames, octave \in 0..MaxOctaveInput, five \in BOOLEAN :
          LET four == << name \o <<Digit(octave)>>, <<"D", "2">>, <<"A", "1">>,
                         <<"E", "1">> >>
              text == IF five THEN Append(four, <<"B", "0">>) ELSE four
          IN  output' = [text |-> text, tuning |-> ParseTuning(text)]
    /\ op' = "ParseTuning"
    /\ UNCHANGED <<appVars, game, input, script, judged, dateNow, audio, songs>>

PureNext ==
    \/ ApplyGetHitQuality \/ ApplyComboMultiplier \/ ApplyLoaders
    \/ ApplyNoteForTab \/ ApplyParseTuning

SpecPure == PureInit /\ [][PureNext]_vars

\* C6: getHitQuality is defined for every offset >= 0 and returns Perfect
\* exactly for offset <= 0.050, Good exactly for 0.050 < offset <= 0.100, OK
\* exactly for 0.100 < offset <= 0.150 and Miss exactly for offset > 0.150
\* (so 0.050, 0.100 and 0.150 fall in the better tier).
C6_ClassifierPartition ==
    op = "getHitQuality" =>
        /\ output \in {HitMiss, HitOK, HitGood, HitPerfect}
        /\ output = HitPerfect <=> input <= 50
        /\ output = HitGood <=> (50 < input /\ input <= 100)
        /\ output = HitOK <=> (100 < input /\ input <= 150)
        /\ output = HitMiss <=> 150 < input

\* C6 witness: the classifier was applied to the boundary offset 0.100 s and
\* returned Good.
C6_Witness == op = "getHitQuality" /\ input = 100 /\ output = HitGood

\* C11: the combo multiplier is 1 for combo < 10, 2 for 10 <= combo < 25, 3
\* for 25 <= combo < 50 and 4 for combo >= 50, and never decreases when the
\* combo grows, both as computed by the ladder of the desktop RegisterHit and
\* by the web getComboMultiplier.
C11_MultiplierLadder ==
    op = "comboMultiplier" =>
        /\ \A m \in {output.desktop, output.web} :
              /\ m \in {1, 2, 3, 4}
              /\ m = 1 <=> input < 10
              /\ m = 2 <=> (10 <= input /\ input < 25)
              /\ m = 3 <=> (25 <= input /\ input < 50)
              /\ m = 4 <=> input >= 50
        /\ output.desktop <= output.desktopNext
        /\ output.web <= output.webNext

\* C11 witness: both ladders were applied to combo 49 and to combo 50 and gave
\* 3 and 4.
C11_Witness ==
    /\ op = "comboMultiplier" /\ input = 49
    /\ output.desktop = 3 /\ output.web = 3
    /\ output.desktopNext = 4 /\ output.webNext = 4

----------------------------------------------------------------------------
(* Properties of the application frames *)

\* the unhit notes that are more than 0.300 s old at the time of the next frame
Stale == {i \in DOMAIN ActiveNotes :
             ~ActiveNotes[i].Hit /\ gameState'.CurrentTime - ActiveNotes[i].Time > 300}

\* C3: in every frame that starts in Playing, each unhit note that is more
\* than 0.300 s old at the frame's time leaves the frame hit with quality Miss
\* and the frame's time as hit time, whatever the sample of the frame; every
\* such note counts in NotesMissed and the combo ends the frame at 0 unless a
\* hit was scored later in the same frame.
C3_StaleNotesMissedInFrame ==
    [][state = StatePlaying =>
          /\ \A i \in Stale :
                /\ ActiveNotes'[i].Hit
                /\ ActiveNotes'[i].HitQuality = HitMiss
                /\ ActiveNotes'[i].HitTime = gameState'.CurrentTime
          /\ gameState'.NotesMissed >= gameState.NotesMissed + Cardinality(Stale)
          /\ (Stale # {} /\ gameState'.NotesHit = gameState.NotesHit)
                => gameState'.Combo = 0]_vars

\* C3 witness: a frame in Playing with a sample that is not valid ended with a
\* note resolved as Miss at a time more than 0.300 s after the note, after the
\* other note had been hit (the combo was reset from 1 to 0).
C3_Witness ==
    /\ op = "Frame" /\ state = StatePlaying
    /\ ~IsValid(currentPitch)
    /\ gameState.NotesHit = 1 /\ gameState.Combo = 0 /\ gameState.NotesMissed = 1
    /\ \E i \in DOMAIN ActiveNotes :
          /\ ActiveNotes[i].Hit /\ ActiveNotes[i].HitQuality = HitMiss
          /\ ActiveNotes[i].HitTime = gameState.CurrentTime
          /\ gameState.CurrentTime - ActiveNotes[i].Time > 300

\* C9: NotesHit + NotesMissed never exceeds TotalNotes, and TotalNotes is the
\* number of notes of the song of the game state.
C9_JudgedAtMostTotal ==
    /\ gameState.NotesHit + gameState.NotesMissed <= gameState.TotalNotes
    /\ gameState.TotalNotes = Len(ActiveNotes)

\* C9 witness: while Playing every note of a two-note song has been judged,
\* one as a hit and one as a miss.
C9_Witness ==
    /\ state = StatePlaying
    /\ gameState.TotalNotes = 2
    /\ gameState.NotesHit = 1 /\ gameState.NotesMissed = 1

----------------------------------------------------------------------------
(* The score state driven directly: the same judgments are given to the       *)
(* desktop GameState.RegisterHit and to the web store (recordHit for OK, Good *)
(* and Perfect, recordMiss for Miss).  The judgments of a run follow a script *)
(* drawn at the start and go on with MaxFree judgments of any quality.        *)

\* longest run of consecutive hits in a script
MaxStreak == 11

\* largest number of misses between the two runs of hits of a script
MaxMisses == 1

\* number of judgments of any quality after the script
MaxFree == 2

\* a song of n E1 notes one second apart
ScoreSong(n) ==
    LoadSong([i \in 1..n |-> Note(1000 * i, StringE, 0, 0)], TuningStandard)

Repeat(q, n) == [i \in 1..n |-> q]

\* the scripts: b1 hits of quality q, m misses, b hits of quality q
Scripts ==
    {Repeat(q, b1) \o Repeat(HitMiss, m) \o Repeat(q, b) :
        q \in {HitOK, HitGood, HitPerfect}, b1 \in 0..MaxStreak,
        m \in 0..MaxMisses, b \in 0..MaxStreak}

\* a game of a song with one note per judgment, just started on the desktop
\* (NewGameState, Start) and in the web store (selectSong, startPlaying)
ScoreInit ==
    \E h \in Scripts :
        LET song == ScoreSong(Len(h) + MaxFree)
        IN  /\ exercises = <<song>>
            /\ gameState = Start(NewGameState(1, <<song>>))
            /\ game = startPlaying(selectSong(createInitialGameState, Len(song.Notes)))
            /\ script = h
            /\ judged = <<>>
            /\ dateNow = 0
            /\ audio = NewAudioInput
            /\ songs = createSongsStore
            /\ selectedIndex = 1
            /\ state = StatePlaying
            /\ lastNoteDetected = FALSE
            /\ currentPitch = PitchSilence
            /\ sinceStart = 0
            /\ sinceLastNote = 0
            /\ input = "none"
            /\ output = "none"
            /\ op = "Start"

\* GameState.RegisterHit(note, q, x, y) on the next unjudged note, and
\* recordHit(q, x, y) or recordMiss() on the web store
ScoreJudge ==
    \E q \in HitQualities :
        LET notes == exercises[gameState.Song].Notes
            unhit == {i \in DOMAIN notes : ~notes[i].Hit}
        IN  /\ unhit # {}
            /\ script # <<>> => q = Head(script)
            /\ LET i == CHOOSE j \in unhit : \A k \in unhit : j <= k
                   w == RegisterHit([ex |-> exercises, gs |-> gameState], i, q,
                                    PlayLineX, NoteY(notes[i]))
               IN  /\ exercises' = w.ex
                   /\ gameState' = w.gs
                   /\ game' = IF q = HitMiss THEN recordMiss(game)
                              ELSE recordHit(game, q, PlayLineX, NoteY(notes[i]), dateNow)
            /\ script' = IF script # <<>> THEN Tail(script) ELSE script
            /\ judged' = Append(judged, q)
            /\ input' = q
            /\ output' = "none"
            /\ op' = "RegisterHit"
            /\ UNCHANGED <<selectedIndex, state, lastNoteDetected, currentPitch,
                           sinceStart, sinceLastNote, dateNow, audio, songs>>

\* GameState.Accuracy() and calculateAccuracy(game)
ScoreAccuracy ==
    /\ output' = [desktop |-> Accuracy(gameState), web |-> calculateAccuracy(game)]
    /\ op' = "Accuracy"
    /\ UNCHANGED <<appVars, game, input, script, judged, dateNow, audio, songs>>

ScoreNext == ScoreJudge \/ ScoreAccuracy

SpecScore == ScoreInit /\ [][ScoreNext]_vars

\* base points of the scoring table
BasePoints(q) ==
    IF q = HitPerfect THEN 100 ELSE IF q = HitGood THEN 50 ELSE IF q = HitOK THEN 25 ELSE 0

\* the combo multiplier ladder
LadderOf(combo) ==
    IF combo >= 50 THEN 4 ELSE IF combo >= 25 THEN 3 ELSE IF combo >= 10 THEN 2 ELSE 1

\* C8: RegisterHit with quality Miss sets the combo to 0, adds 1 to
\* NotesMissed and leaves Score, MaxCombo and NotesHit alone; with OK, Good or
\* Perfect it adds 1 to the combo, raises MaxCombo to the new combo if that is
\* larger, adds 1 to NotesHit and adds the base points times the multiplier of
\* the new combo to the score; the 11th consecutive Perfect hit adds 200 and
\* leaves MaxCombo >= 11.
C8_RegisterHitEffect ==
    [][op' = "RegisterHit" =>
          /\ input' = HitMiss =>
                /\ gameState'.Combo = 0
                /\ gameState'.NotesMissed = gameState.NotesMissed + 1
                /\ gameState'.Score = gameState.Score
                /\ gameState'.MaxCombo = gameState.MaxCombo
                /\ gameState'.NotesHit = gameState.NotesHit
          /\ input' # HitMiss =>
                /\ gameState'.Combo = gameState.Combo + 1
                /\ gameState'.MaxCombo =
                      IF gameState.Combo + 1 > gameState.MaxCombo
                      THEN gameState.Combo + 1 ELSE gameState.MaxCombo
                /\ gameState'.NotesHit = gameState.NotesHit + 1
                /\ gameState'.NotesMissed = gameState.NotesMissed
                /\ gameState'.Score = gameState.Score
                      + BasePoints(input') * LadderOf(gameState.Combo + 1)
          /\ (input' = HitPerfect /\ gameState.Combo = 10) =>
                /\ gameState'.Score = gameState.Score + 200
                /\ gameState'.MaxCombo >= 11]_vars

\* C8 witness: eleven Perfect hits in a row were registered, the last one by
\* the step: 9 x 100 + 2 x 200 points.
C8_Witness ==
    /\ op = "RegisterHit" /\ input = HitPerfect
    /\ gameState.Combo = 11 /\ gameState.NotesHit = 11 /\ gameState.NotesMissed = 0
    /\ gameState.Score = 1300

\* C10: the combo never exceeds the max combo, in the desktop game state and
\* in the web store, whatever hits and misses were registered.
C10_ComboAtMostMax ==
    /\ gameState.Combo <= gameState.MaxCombo
    /\ game.combo <= game.maxCombo

\* C10 witness: a hit was registered after a miss that followed a longer run
\* of hits: in both implementations the combo is 1 and below the max combo.
C10_Witness ==
    /\ op = "RegisterHit" /\ input # HitMiss
    /\ gameState.Combo = 1 /\ gameState.MaxCombo > 1 /\ gameState.NotesMissed > 0
    /\ game.combo = 1 /\ game.maxCombo > 1 /\ game.notesMissed > 0

\* the number of judgments after the last Miss of h (all of h if it has none)
Streak(h) ==
    LET misses == {i \in DOMAIN h : h[i] = HitMiss}
    IN  IF misses = {} THEN Len(h)
        ELSE Len(h) - (CHOOSE i \in misses : \A j \in misses : j <= i)

\* C12: in every state of a session the combo is the number of consecutive
\* non-Miss judgments registered since the most recent Miss judgment, or since
\* the start of the session if there was none (desktop game state and web
\* store alike).
C12_ComboIsStreak ==
    /\ gameState.Combo = Streak(judged)
    /\ game.combo = Streak(judged)

\* C12 witness: three hits, a miss and two more hits were registered; the
\* combo is 2.
C12_Witness ==
    /\ Len(judged) = 6 /\ judged[4] = HitMiss
    /\ \A i \in {1, 2, 3, 5, 6} : judged[i] # HitMiss
    /\ gameState.Combo = 2 /\ gameState.NotesHit = 5 /\ gameState.NotesMissed = 1

\* C13: the accuracy is exactly 100 when NotesHit = NotesMissed = 0 and
\* NotesHit / (NotesHit + NotesMissed) x 100 otherwise, as returned by the
\* desktop GameState.Accuracy and by the web calculateAccuracy.
C13_Accuracy ==
    op = "Accuracy" =>
        /\ LET r == output.desktop
               hit == gameState.NotesHit
               missed == gameState.NotesMissed
           IN  /\ r.den > 0
               /\ IF hit = 0 /\ missed = 0 THEN r.num = 100 * r.den
                  ELSE r.num * (hit + missed) = hit * 100 * r.den
        /\ LET r == output.web
               hit == game.notesHit
               missed == game.notesMissed
           IN  /\ r.den > 0
               /\ IF hit = 0 /\ missed = 0 THEN r.num = 100 * r.den
                  ELSE r.num * (hit + missed) = hit * 100 * r.den

\* C13 witness: the accuracy was taken after two hits and one miss (200/3
\* percent) in both implementations.
C13_Witness ==
    /\ op = "Accuracy"
    /\ gameState.NotesHit = 2 /\ gameState.NotesMissed = 1
    /\ game.notesHit = 2 /\ game.notesMissed = 1
    /\ output.desktop.num * 3 = 200 * output.desktop.den
    /\ output.web.num * 3 = 200 * output.web.den

\* the last element of a non-empty sequence
Last(q) == q[Len(q)]

\* q with its last element removed
Front(q) == SubSeq(q, 1, Len(q) - 1)

\* C14 as claimed: every judgment, hit or miss, appends exactly one feedback
\* event carrying the quality of the judgment, in the desktop RegisterHit and
\* in the web recordHit and recordMiss.
C14_Claimed_EveryJudgmentAppendsFeedback ==
    [][op' = "RegisterHit" =>
          /\ Len(gameState'.FloatingText) = Len(gameState.FloatingText) + 1
          /\ Front(gameState'.FloatingText) = gameState.FloatingText
          /\ Last(gameState'.FloatingText).Quality = input'
          /\ Len(game'.floatingText) = Len(game.floatingText) + 1
          /\ Front(game'.floatingText) = game.floatingText
          /\ Last(game'.floatingText).quality = input']_vars

\* C14 divergence: a Miss was judged; the desktop game state got a feedback
\* event of quality Miss and the web store got none.
C14_Witness ==
    /\ op = "RegisterHit" /\ input = HitMiss
    /\ judged = <<HitMiss>>
    /\ Len(gameState.FloatingText) = 1
    /\ gameState.FloatingText[1].Quality = HitMiss
    /\ game.notesMissed = 1 /\ game.floatingText = <<>>

\* the quality labels
LabelOf(q) ==
    IF q = HitPerfect THEN "Perfect!" ELSE IF q = HitGood THEN "Good"
    ELSE IF q = HitOK THEN "OK" ELSE "Miss"

\* the text of a feedback event of quality q judged with multiplier m
FeedbackText(q, m) == IF m > 1 THEN LabelOf(q) \o " x" \o Digit(m) ELSE LabelOf(q)

\* C15 as claimed: the text of the feedback event of a judgment is the quality
\* label alone when the multiplier applied to the judgment is 1 and the label
\* followed by the multiplier (2, 3 or 4) when it is greater than 1, in the
\* desktop RegisterHit and in the web recordHit.
C15_Claimed_SuffixIsMultiplier ==
    [][op' = "RegisterHit" =>
          /\ Last(gameState'.FloatingText).Text =
                IF input' = HitMiss THEN LabelOf(HitMiss)
                ELSE FeedbackText(input', LadderOf(gameState'.Combo))
          /\ input' # HitMiss =>
                Last(game'.floatingText).text = FeedbackText(input', LadderOf(game'.combo))]_vars

\* C15 divergence: the second consecutive Perfect hit was judged with
\* multiplier 1 (it added 100 points); the desktop feedback text carries the
\* combo count, the web text is the label alone.
C15_Witness ==
    /\ op = "RegisterHit" /\ judged = <<HitPerfect, HitPerfect>>
    /\ gameState.Score = 200 /\ gameState.Combo = 2
    /\ Last(gameState.FloatingText).Text = "Perfect! x2"
    /\ Last(game.floatingText).text = "Perfect!"

\* C16: after the maintenance sweep of a frame in Playing the feedback list
\* holds no event older than 1 second and still holds, in their order, all the
\* events younger than 1 second (the events judged later in the same frame
\* follow them with age 0).
C16_SweepKeepsYoungOnly ==
    [][state = StatePlaying =>
          LET dt == gameState'.CurrentTime - gameState.CurrentTime
              isYoung(f) == f.Age + dt < 1000
              kept == SelectSeq(gameState.FloatingText, isYoung)
              wasThere(f) == 0 < f.Age /\ f.Age < 1000
              stayed == SelectSeq(gameState'.FloatingText, wasThere)
          IN  /\ dt > 0
              /\ \A i \in DOMAIN gameState'.FloatingText :
                    gameState'.FloatingText[i].Age <= 1000
              /\ Len(stayed) = Len(kept)
              /\ \A i \in DOMAIN kept :
                    stayed[i] = [kept[i] EXCEPT !.Age = @ + dt]]_vars

\* C16 witness: two notes were judged in a game that is still Playing; the
\* event of the first has been swept and the event of the second, a Miss
\* judged 0.9 s ago, is still in the list.
C16_Witness ==
    /\ op = "Frame" /\ state = StatePlaying
    /\ gameState.NotesHit + gameState.NotesMissed = 2
    /\ Len(gameState.FloatingText) = 1
    /\ gameState.FloatingText[1].Age = 900
    /\ gameState.FloatingText[1].Quality = HitMiss

\* the edges of the session state machine
SessionEdges ==
    {<<StateMenu, StatePreStart>>, <<StatePreStart, StatePlaying>>,
     <<StatePlaying, StateResults>>, <<StateResults, StateMenu>>}

\* C17: App.state changes only along Menu -> PreStart, PreStart -> Playing,
\* Playing -> Results and Results -> Menu, whatever the frames and the
\* detected notes.
C17_OnlySessionEdges ==
    [][state' # state => <<state, state'>> \in SessionEdges]_vars

\* C17 witness: the application is in Menu again after a whole cycle Menu ->
\* PreStart -> Playing -> Results -> Menu (a note of the song was judged
\* during the play).
C17_Witness ==
    /\ op = "Frame" /\ state = StateMenu
    /\ sinceLastNote = 0 /\ lastNoteDetected
    /\ \E i \in DOMAIN exercises[1].Notes : exercises[1].Notes[i].Hit

\* the counters of the desktop score state
ScoreFields(g) == <<g.Score, g.Combo, g.MaxCombo, g.NotesHit, g.NotesMissed>>

\* C18: no hit or miss is registered outside Playing.  A desktop frame that
\* neither starts nor ends in Playing changes no note and appends no feedback
\* event, and leaves the score counters alone unless it replaces the game
\* state by a fresh one; recordHit and recordMiss of the web store change
\* nothing when the store is not in PLAYING.
C18_NoJudgingOutsidePlaying ==
    [][/\ (op' = "Frame" /\ state # StatePlaying /\ state' # StatePlaying) =>
             /\ exercises' = exercises
             /\ ScoreFields(gameState') \in {ScoreFields(gameState), <<0, 0, 0, 0, 0>>}
             /\ Len(gameState'.FloatingText) <= Len(gameState.FloatingText)
       /\ (op' \in {"recordHit", "recordMiss"} /\ game.state # "PLAYING") =>
             game' = game]_vars

\* C18 witness: recordMiss was called on the web store in RESULTS after a game
\* with two hits; no miss is counted and the combo is still 2.
C18_Witness ==
    /\ op = "recordMiss" /\ game.state = "RESULTS"
    /\ game.notesHit = 2 /\ game.notesMissed = 0 /\ game.combo = 2

\* the frame that leads to the next state called App.SelectExercise: a note
\* was just played in Results (GoToMenu) or as the first note in Menu
Selected ==
    /\ op' = "Frame" /\ sinceLastNote' = 0
    /\ state = StateResults \/ (state = StateMenu /\ ~lastNoteDetected)

\* C19 as claimed: after every chart selection, the re-selection by GoToMenu
\* after a finished play included, every note of the active chart has
\* Hit = false, quality Miss and hit time 0, the counters of the game state
\* are 0 and TotalNotes is the number of notes of the chart.
C19_Claimed_SelectionIsFresh ==
    [][Selected =>
          LET notes == exercises'[selectedIndex'].Notes
          IN  /\ gameState'.Song = selectedIndex'
              /\ \A i \in DOMAIN notes :
                    /\ ~notes[i].Hit
                    /\ notes[i].HitQuality = HitMiss
                    /\ notes[i].HitTime = 0
              /\ ScoreFields(gameState') = <<0, 0, 0, 0, 0>>
              /\ gameState'.TotalNotes = Len(notes)]_vars

\* C19 divergence: the application is in Menu with exercise 1 selected again
\* after a finished play of it; the game state is fresh and both notes of the
\* chart are still hit, one with the quality and hit time of the play.
C19_Witness ==
    /\ op = "Frame" /\ state = StateMenu /\ selectedIndex = 1
    /\ gameState = NewGameState(1, exercises)
    /\ \A i \in DOMAIN exercises[1].Notes : exercises[1].Notes[i].Hit
    /\ \E i \in DOMAIN exercises[1].Notes :
          /\ exercises[1].Notes[i].HitQuality = HitPerfect
          /\ exercises[1].Notes[i].HitTime > 0

\* C20: right after returnToMenu of the web store, called in any state, and
\* after GoToMenu of the desktop application, the score, the combo, the max
\* combo and the counts of hit and missed notes are 0, the feedback list is
\* empty and the session state is Menu.
C20_MenuDiscardsScore ==
    [][/\ op' = "returnToMenu" =>
             /\ game'.state = "MENU"
             /\ <<game'.score, game'.combo, game'.maxCombo, game'.notesHit,
                  game'.notesMissed>> = <<0, 0, 0, 0, 0>>
             /\ game'.floatingText = <<>>
       /\ (op' = "Frame" /\ sinceLastNote' = 0 /\ state = StateResults) =>
             /\ state' = StateMenu
             /\ ScoreFields(gameState') = <<0, 0, 0, 0, 0>>
             /\ gameState'.FloatingText = <<>>]_vars

\* C20 witness: the desktop application is in Menu with all counters at 0 and
\* no feedback event after a play in which a note was hit Perfect.
C20_Witness ==
    /\ op = "Frame" /\ state = StateMenu /\ sinceLastNote = 0
    /\ ScoreFields(gameState) = <<0, 0, 0, 0, 0>>
    /\ gameState.FloatingText = <<>>
    /\ \E i \in DOMAIN exercises[1].Notes :
          exercises[1].Notes[i].Hit /\ exercises[1].Notes[i].HitQuality = HitPerfect

\* C21: when the session enters Playing the current time is 0 and the session
\* is active (playing, not finished), in the web store (startPlaying) and in
\* the desktop application (StartGame, GameState.Start).
C21_EnterPlayingActiveAtZero ==
    [][/\ (game.state # "PLAYING" /\ game'.state = "PLAYING") =>
             /\ game'.currentTime = 0
             /\ game'.isPlaying /\ ~game'.isFinished
       /\ (state # StatePlaying /\ state' = StatePlaying) =>
             /\ gameState'.CurrentTime = 0
             /\ gameState'.IsPlaying /\ ~gameState'.IsFinished]_vars

\* C21 witness: the web store entered PLAYING by startPlaying one second
\* after the page was opened, with time 0.
C21_Witness ==
    /\ op = "startPlaying" /\ dateNow = 1000
    /\ game.state = "PLAYING" /\ game.currentTime = 0
    /\ game.isPlaying /\ ~game.isFinished

\* C22: a frame that starts in Playing ends in Results exactly when its
\* current time is strictly greater than the duration of the chart, which is
\* the time of the last note plus its duration plus 2 s; and as frames keep
\* coming every Playing session reaches Results.
C22_ResultsWhenTimeExceedsDuration ==
    /\ [][state = StatePlaying =>
              /\ state' \in {StatePlaying, StateResults}
              /\ state' = StateResults <=> gameState'.CurrentTime > ActiveSong.Duration]_vars
    /\ [](\A e \in DOMAIN exercises :
              LET notes == exercises[e].Notes
              IN  notes # <<>> =>
                      exercises[e].Duration =
                          notes[Len(notes)].Time + notes[Len(notes)].Duration + 2000)
    /\ (state = StatePlaying ~> state = StateResults)

\* C22 witness: the frame at 2.6 s of a chart that lasts 2.5 s ended in
\* Results.
C22_Witness ==
    /\ op = "Frame" /\ state = StateResults
    /\ ActiveSong.Duration = 2500 /\ gameState.CurrentTime = 2600
    /\ gameState.IsFinished

\* C23: in the web store selectSong called outside MENU, startPlaying called
\* outside PRE_START and endGame called outside PLAYING leave every field of
\* the store unchanged.
C23_InvalidTransitionsAreNoOps ==
    [][(\/ op' = "selectSong" /\ game.state # "MENU"
        \/ op' = "startPlaying" /\ game.state # "PRE_START"
        \/ op' = "endGame" /\ game.state # "PLAYING") => game' = game]_vars

\* C23 witness: endGame was called on a store in RESULTS that holds a score
\* and a feedback event, after a finished play.
C23_Witness ==
    /\ op = "endGame" /\ game.state = "RESULTS" /\ game.isFinished
    /\ game.notesHit = 1 /\ game.score > 0 /\ Len(game.floatingText) = 1
    /\ dateNow = 500

\* the key under which note i of the active chart is looked up in the table
ExpectedKey(i) ==
    <<NoteWithTuning(ActiveNotes[i], ActiveSong.Tuning),
      OctaveWithTuning(ActiveNotes[i], ActiveSong.Tuning)>>

\* note i has a key of the reference table
KnownKey(i) ==
    /\ ExpectedKey(i)[1] \in {noteNames[k] : k \in 1..12} \cup DOMAIN flatNames
    /\ ExpectedKey(i)[2] \in 0..4

\* the unhit notes inside the judging window with a key of the table that is
\* within the tolerance of sample p
KnownMatching(p) ==
    {i \in DOMAIN ActiveNotes :
        /\ ~ActiveNotes[i].Hit /\ InWindow(i) /\ KnownKey(i)
        /\ Abs(p.Frequency - noteFrequencies[ExpectedKey(i)]) < 50}

\* C24: a note whose name and octave are not a key of the reference table
\* matches no sample (CheckHit marks it only as a stale Miss, never as a
\* match inside the window), and it does not stop the scan: the first unhit
\* note inside the window that has a key of the table and matches the valid
\* sample is hit in the same call.
C24_UnknownKeyNeverMatches ==
    /\ [](\A i \in DOMAIN ActiveNotes, p \in ScanPitches :
              ~KnownKey(i) => ~notesMatch(p, ActiveSong, ActiveNotes[i]))
    /\ [][op' = "CheckHit" =>
              /\ \A i \in NewlyHit :
                     ~KnownKey(i) =>
                         /\ ~InWindow(i)
                         /\ ActiveNotes'[i].HitQuality = HitMiss
              /\ (IsValid(currentPitch') /\ KnownMatching(currentPitch') # {}) =>
                     First(KnownMatching(currentPitch')) \in NewlyHit]_vars

\* C24 witness: CheckHit hit the E1 note of the chart (string E, fret 1, tuned
\* half a step down) while the two notes before it, one on a string outside
\* the tuning and one in octave 5, are unhit inside the judging window.
C24_Witness ==
    /\ op = "CheckHit" /\ currentPitch = PitchE1
    /\ Len(ActiveNotes) = 4
    /\ exercises = <<[SongOdd EXCEPT !.Notes[4] = ActiveNotes[4]]>>
    /\ ActiveNotes[4].Hit /\ ActiveNotes[4].HitTime = gameState.CurrentTime
    /\ ExpectedKey(1) = <<"?", 1>> /\ ExpectedKey(2)[2] = 5
    /\ ~ActiveNotes[1].Hit /\ InWindow(1)
    /\ ~ActiveNotes[2].Hit /\ InWindow(2)

\* C25 as claimed: every note of a chart accepted by LoadSong or by
\* rawExerciseToSong has a string index smaller than the length of the
\* tuning of the chart.
C25_Claimed_StringIndexBelowTuningLength ==
    op = "loaders" =>
        /\ \A i \in DOMAIN output.desktop.Notes :
               output.desktop.Notes[i].String < Len(output.desktop.Tuning)
        /\ output.web.error = "" =>
               \A i \in DOMAIN output.web.Notes :
                   output.web.Notes[i].String < Len(output.web.Tuning)

\* C25 witness: both loaders accepted a chart in standard 4-string tuning
\* with a note on string 4.
C25_Witness ==
    /\ op = "loaders" /\ input = 4
    /\ output.desktop.Tuning = TuningStandard /\ output.desktop.Notes[2].String = 4
    /\ output.web.error = ""
    /\ output.web.Tuning = TuningStandard /\ output.web.Notes[2].String = 4

----------------------------------------------------------------------------
(* The audio hand-off: the PortAudio callback thread runs processAudio for   *)
(* one write after the other, the frame thread runs GetBuffer (App.Update);  *)
(* every Lock, every copied sample and every Unlock is a step of its own, in *)
(* any interleaving.                                                         *)

\* number of callback writes
MaxWrites == 3

\* number of GetBuffer calls
MaxReads == 3

AudioInit ==
    /\ exercises = LoadedExercises
    /\ selectedIndex = 1
    /\ gameState = NewGameState(1, LoadedExercises)
    /\ state = StateMenu
    /\ lastNoteDetected = FALSE
    /\ currentPitch = PitchSilence
    /\ sinceStart = 0
    /\ sinceLastNote = NoteCooldown + 1
    /\ game = createInitialGameState
    /\ input = "none"
    /\ output = "none"
    /\ script = <<>>
    /\ judged = <<>>
    /\ dateNow = 0
    /\ audio = NewAudioInput
    /\ songs = createSongsStore
    /\ op = "NewAudioInput"

AudioStep(a, name) ==
    /\ audio' = a
    /\ op' = name
    /\ UNCHANGED <<appVars, game, input, output, script, judged, dateNow, songs>>

\* PortAudio calls processAudio(in) with the next block of samples
processAudioCall ==
    /\ audio.cbPc = "idle"
    /\ audio.cbIn < MaxWrites
    /\ AudioStep([audio EXCEPT !.cbPc = "lock", !.cbIn = @ + 1], "processAudio")

\* a.mu.Lock() of processAudio
processAudioLock ==
    /\ audio.cbPc = "lock"
    /\ MutexFree(audio)
    /\ AudioStep([audio EXCEPT !.mu = "callback", !.cbPc = "copy", !.cbIdx = 1],
                 "processAudio.Lock")

\* copy(a.latest, in), one sample
processAudioCopy ==
    /\ audio.cbPc = "copy"
    /\ audio.cbIdx <= BufferCells
    /\ AudioStep([audio EXCEPT
                     !.latest = CopyCell(@, [i \in Cells |-> audio.cbIn], audio.cbIdx),
                     !.cbIdx = @ + 1],
                 "processAudio.copy")

\* a.mu.Unlock() of processAudio and its return
processAudioUnlock ==
    /\ audio.cbPc = "copy"
    /\ audio.cbIdx > BufferCells
    /\ AudioStep([audio EXCEPT !.mu = "free", !.cbPc = "idle",
                                !.completed = audio.cbIn],
                 "processAudio.Unlock")

\* App.Update calls GetBuffer()
GetBufferCall ==
    /\ audio.frPc = "idle"
    /\ Len(audio.returnedLog) < MaxReads
    /\ AudioStep([audio EXCEPT !.frPc = "lock"], "GetBuffer")

\* a.mu.Lock() of GetBuffer
GetBufferLock ==
    /\ audio.frPc = "lock"
    /\ MutexFree(audio)
    /\ AudioStep([audio EXCEPT !.mu = "frame", !.frPc = "copy", !.frIdx = 1],
                 "GetBuffer.Lock")

\* copy(a.buffer, a.latest), one sample
GetBufferCopy ==
    /\ audio.frPc = "copy"
    /\ audio.frIdx <= BufferCells
    /\ AudioStep([audio EXCEPT
                     !.buffer = CopyCell(@, audio.latest, audio.frIdx),
                     !.frIdx = @ + 1],
                 "GetBuffer.copy")

\* return a.buffer with the deferred a.mu.Unlock()
GetBufferReturn ==
    /\ audio.frPc = "copy"
    /\ audio.frIdx > BufferCells
    /\ AudioStep([audio EXCEPT
                     !.mu = "free", !.frPc = "idle",
                     !.returned = audio.buffer,
                     !.returnedLog = Append(@, [content |-> audio.buffer,
                                                completed |-> audio.completed])],
                 "GetBuffer.return")

AudioNext ==
    \/ processAudioCall \/ processAudioLock \/ processAudioCopy \/ processAudioUnlock
    \/ GetBufferCall \/ GetBufferLock \/ GetBufferCopy \/ GetBufferReturn

SpecAudio == AudioInit /\ [][AudioNext]_vars

\* the content of callback write w (0: the initial content)
WriteContent(w) == [i \in Cells |-> w]

\* C26: the two copies exclude each other, and every buffer returned by
\* GetBuffer is the complete content of one callback write or the initial
\* content, never a mixture of two.
C26_ReturnedBufferIsOneWrite ==
    /\ ~(audio.cbPc = "copy" /\ audio.frPc = "copy")
    /\ \A k \in DOMAIN audio.returnedLog :
           \E w \in 0..MaxWrites : audio.returnedLog[k].content = WriteContent(w)

\* C26 witness: GetBuffer returned the content of write 1 while the callback
\* with write 2 was waiting for the mutex.
C26_Witness ==
    /\ op = "GetBuffer.return"
    /\ audio.returned = WriteContent(1)
    /\ audio.cbPc = "lock" /\ audio.cbIn = 2

\* C27: GetBuffer returns the content of the last completed callback write
\* (so a second call with no callback in between returns the same content as
\* the first), and it waits for the mutex only, never for a new write: with
\* the mutex free its Lock can be taken whatever has been returned before.
C27_MailboxReturnsLatestWrite ==
    /\ [][op' = "GetBuffer.return" =>
              /\ audio'.returned = WriteContent(audio.completed)
              /\ (audio.returnedLog # <<>>
                     /\ Last(audio.returnedLog).completed = audio.completed) =>
                       audio'.returned = audio.returned]_vars
    /\ []((audio.frPc = "lock" /\ audio.mu = "free") => ENABLED GetBufferLock)

\* C27 witness: three calls returned the initial content, then twice the
\* content of write 2; write 1 was completed and never returned.
C27_Witness ==
    /\ op = "GetBuffer.return"
    /\ Len(audio.returnedLog) = 3
    /\ audio.returnedLog[1] = [content |-> WriteContent(0), completed |-> 0]
    /\ audio.returnedLog[2] = [content |-> WriteContent(2), completed |-> 2]
    /\ audio.returnedLog[3] = audio.returnedLog[2]

\* C28 as claimed: a note is judged only by a match at most 0.150 s from its
\* time or once it is more than 0.300 s old; a sample further than 0.150 s
\* from a note that is not that old leaves the note unjudged.
C28_Claimed_NoJudgmentBeyondOKWindow ==
    [][\A i \in NewlyHit :
          \/ Abs(ActiveNotes[i].Time - gameState.CurrentTime) <= 150
          \/ gameState.CurrentTime - ActiveNotes[i].Time > 300]_vars

\* C28 witness: the sole note at 2.0 s is registered Miss by the CheckHit at
\* 1.7 s, 0.300 s before it is due, with a sample of its own pitch.
C28_Witness ==
    /\ op = "CheckHit" /\ currentPitch = PitchE1
    /\ exercises[1].Notes = <<[SongOneNote.Notes[1] EXCEPT
                                  !.Hit = TRUE, !.HitQuality = HitMiss,
                                  !.HitTime = 1700]>>
    /\ gameState.CurrentTime = 1700
    /\ gameState.NotesMissed = 1 /\ gameState.Combo = 0

\* C29: when CheckHit meets an unhit note that is more than 0.300 s in the
\* future, no note that comes later in chart order is judged in that call,
\* neither hit nor marked Miss.
C29_NothingJudgedAfterFutureNote ==
    [][op' = "CheckHit" =>
          \A i \in DOMAIN ActiveNotes :
              (~ActiveNotes[i].Hit /\ ActiveNotes[i].Time - gameState.CurrentTime > 300) =>
                  \A j \in DOMAIN ActiveNotes : j > i => j \notin NewlyHit]_vars

\* C29 witness: CheckHit ran at 1.7 s with a valid E1 sample on the chart
\* F1, E1, E1; the E1 note at 2.1 s is too far in the future and the E1 note
\* after it is unjudged.
C29_Witness ==
    /\ op = "CheckHit" /\ currentPitch = PitchE1
    /\ gameState.CurrentTime = 1700
    /\ Len(ActiveNotes) = 3
    /\ ActiveNotes[2].Time = 2100 /\ ~ActiveNotes[2].Hit
    /\ ActiveNotes[3].Time = 2200 /\ ~ActiveNotes[3].Hit
    /\ Abs(currentPitch.Frequency - noteFrequencies[ExpectedKey(3)]) < 50

\* C30: when CheckHit with a valid sample meets an unhit note more than
\* 0.300 s in the past it registers the note as Miss and goes on: every such
\* note is Miss after the call, and the first unhit note inside the judging
\* window that matches the sample is hit in the same call.
C30_StaleNoteDoesNotBlock ==
    [][(op' = "CheckHit" /\ IsValid(currentPitch')) =>
          /\ \A i \in DOMAIN ActiveNotes :
                 (~ActiveNotes[i].Hit /\ ActiveNotes[i].Time - gameState.CurrentTime < -300) =>
                     /\ ActiveNotes'[i].Hit
                     /\ ActiveNotes'[i].HitQuality = HitMiss
          /\ KnownMatching(currentPitch') # {} =>
                 First(KnownMatching(currentPitch')) \in NewlyHit]_vars

\* C30 witness: the CheckHit at 2.35 s with an E1 sample registered the F1
\* note at 2.0 s as Miss and hit the E1 note at 2.1 s in the same call.
C30_Witness ==
    /\ op = "CheckHit" /\ currentPitch = PitchE1
    /\ gameState.CurrentTime = 2350
    /\ Len(ActiveNotes) = 3
    /\ ActiveNotes[1].Time = 2000 /\ ActiveNotes[1].Hit
    /\ ActiveNotes[1].HitQuality = HitMiss /\ ActiveNotes[1].HitTime = 2350
    /\ ActiveNotes[2].Time = 2100 /\ ActiveNotes[2].Hit
    /\ ActiveNotes[2].HitTime = 2350
    /\ ~ActiveNotes[3].Hit

\* the notes of a chart are in non-decreasing order of time
SortedByTime(notes) ==
    \A i, j \in DOMAIN notes : i < j => notes[i].Time <= notes[j].Time

\* C31: every chart that the scanner works on has its notes in non-decreasing
\* order of time, and CheckHit goes through them in that order: the note it
\* matches is the earliest unhit matching note of the judging window.
C31_NotesScannedInTimeOrder ==
    /\ [](\A e \in DOMAIN exercises : SortedByTime(exercises[e].Notes))
    /\ [][op' = "CheckHit" =>
              \A i \in NewlyHit :
                  InWindow(i) =>
                      \A j \in KnownMatching(currentPitch') :
                          ActiveNotes[i].Time <= ActiveNotes[j].Time]_vars

\* C31 witness: in the chart whose file lists the note at 2.1 s before the
\* note at 2.0 s, the notes are at 2.0, 2.1 and 2.2 s and CheckHit hit the E1
\* note at 2.1 s while the E1 note at 2.2 s was unhit inside the window.
C31_Witness ==
    /\ op = "CheckHit" /\ currentPitch = PitchE1
    /\ Len(ActiveNotes) = 3
    /\ <<ActiveNotes[1].Time, ActiveNotes[2].Time, ActiveNotes[3].Time>>
           = <<2000, 2100, 2200>>
    /\ ActiveNotes[2].Hit /\ ActiveNotes[2].HitTime = gameState.CurrentTime
    /\ ~ActiveNotes[1].Hit /\ InWindow(1)
    /\ ~ActiveNotes[3].Hit /\ InWindow(3)

\* the pitch class 0..11 of a note name, sharp or flat
PitchClassOf(name) ==
    IF name \in DOMAIN flatNames THEN NameIndex(flatNames[name]) - 1
    ELSE NameIndex(name) - 1

\* C32: for a string of the song's tuning and a fret >= 0 the derived note
\* has the pitch class (semitone of the open string + fret) mod 12 and the
\* octave of the open string plus the whole number of times 12 goes into
\* semitone + fret, with the open string taken from the song's own tuning;
\* the desktop and the web derivation give the same name and octave.
C32_DerivedNoteFromOwnTuning ==
    op = "noteForTab" =>
        LET open == output.tuning[output.string + 1]
            pos == PitchClassOf(open.Note) + input
        IN  /\ PitchClassOf(output.desktopNote) = pos % 12
            /\ output.desktopOctave = open.Octave + (pos \div 12)
            /\ output.webNote = output.desktopNote
            /\ output.webOctave = output.desktopOctave

\* C32 witness: fret 7 on the Gb string of the half-step-down tuning is C#
\* in octave 3.
C32_Witness ==
    /\ op = "noteForTab" /\ input = 7
    /\ output.tuning = TuningHalfStepDown /\ output.string = 0
    /\ output.desktopNote = "C#" /\ output.desktopOctave = 3
    /\ output.webNote = "C#" /\ output.webOctave = 3

\* the name and the octave written in an entry of a custom tuning
WrittenName(entry) == Join(SubSeq(entry, 1, Len(entry) - 1))

WrittenOctave(entry) == DigitValue(entry[Len(entry)])

\* C33 as claimed: every entry <name><octave digit> of a custom tuning of at
\* least 4 entries is parsed to a string tuning with the pitch class and the
\* octave that are written, flat names included.
C33_Claimed_CustomTuningAsWritten ==
    op = "ParseTuning" =>
        /\ Len(output.tuning) = Len(output.text)
        /\ \A i \in DOMAIN output.text :
               /\ Semitone(output.tuning[i]) = PitchClassOf(WrittenName(output.text[i]))
               /\ output.tuning[i].Octave = WrittenOctave(output.text[i])

\* C33 witness: "Gb2,D2,A1,E1" is parsed to a first string named "GB", which
\* the semitone table does not have, so that its pitch class reads 0.
C33_Witness ==
    /\ op = "ParseTuning"
    /\ output.text = << <<"G", "b", "2">>, <<"D", "2">>, <<"A", "1">>, <<"E", "1">> >>
    /\ output.tuning[1] = [Note |-> "GB", Octave |-> 2]
    /\ Semitone(output.tuning[1]) = 0
    /\ output.tuning[2] = [Note |-> "D", Octave |-> 2]

----------------------------------------------------------------------------
(* The web songs store after loadExercises: selectSong, resetNoteStates and  *)
(* judgments written to the notes of the current song, in any order.         *)

\* number of note-state objects ever created
MaxObjects == 9

\* the exercises loaded: one of two notes, one of one note
LoadedSizes == <<2, 1>>

SongsInit ==
    /\ exercises = LoadedExercises
    /\ selectedIndex = 1
    /\ gameState = NewGameState(1, LoadedExercises)
    /\ state = StateMenu
    /\ lastNoteDetected = FALSE
    /\ currentPitch = PitchSilence
    /\ sinceStart = 0
    /\ sinceLastNote = NoteCooldown + 1
    /\ game = createInitialGameState
    /\ input = "none"
    /\ output = "none"
    /\ script = <<>>
    /\ judged = <<>>
    /\ dateNow = 0
    /\ audio = NewAudioInput
    /\ songs = loadExercises(createSongsStore, LoadedSizes)
    /\ op = "loadExercises"

SongsStep(st, name, arg) ==
    /\ Len(st.heap) <= MaxObjects
    /\ songs' = st
    /\ input' = arg
    /\ op' = name
    /\ UNCHANGED <<appVars, game, output, script, judged, dateNow, audio>>

\* songs.selectSong(index), also with an index outside the exercises
SongsSelectSong ==
    \E index \in -1..Len(songs.exercises) :
        SongsStep(songsSelectSong(songs, index), "songs.selectSong", index)

\* songs.resetNoteStates()
SongsResetNoteStates ==
    SongsStep(resetNoteStates(songs), "songs.resetNoteStates", "none")

\* the game loop judges note i of the current song
SongsWriteNoteState ==
    /\ songs.hasCurrentSong
    /\ \E i \in DOMAIN songs.currentSong, quality \in {HitMiss, HitPerfect} :
          /\ ~songs.heap[songs.currentSong[i]].hit
          /\ SongsStep(writeNoteState(songs, i, quality, 500), "note.state", i)

SongsNext == SongsSelectSong \/ SongsResetNoteStates \/ SongsWriteNoteState

SpecSongs == SongsInit /\ [][SongsNext]_vars

\* the state objects of the notes of a chart
NoteStates(st, notes) == [i \in DOMAIN notes |-> st.heap[notes[i]]]

\* C34: the note states of the templates in exercises never change, and
\* selectSong of an exercise gives currentSong as many notes as the template,
\* with state objects of its own, all hit=false / Miss / 0; so does
\* resetNoteStates.
C34_SelectionHasOwnFreshNoteStates ==
    /\ [](\A e \in DOMAIN songs.exercises :
              \A i \in DOMAIN songs.exercises[e] :
                  songs.heap[songs.exercises[e][i]] = createTabNoteState)
    /\ [][songs'.exercises = songs.exercises]_vars
    /\ []((songs.hasCurrentSong /\ op \in {"songs.selectSong", "songs.resetNoteStates"}) =>
              /\ \A i \in DOMAIN songs.currentSong :
                     /\ songs.heap[songs.currentSong[i]] = createTabNoteState
                     /\ \A e \in DOMAIN songs.exercises :
                            \A k \in DOMAIN songs.exercises[e] :
                                songs.exercises[e][k] # songs.currentSong[i]
              /\ op = "songs.selectSong" =>
                     Len(songs.currentSong) = Len(songs.exercises[songs.selectedIndex + 1]))

\* C34 witness: exercise 0 was selected again after both notes of an earlier
\* selection of it had been judged: the judged state objects are still in the
\* heap, and the current song and the template have two unhit notes each.
C34_Witness ==
    /\ op = "songs.selectSong" /\ songs.selectedIndex = 0
    /\ songs.hasCurrentSong
    /\ NoteStates(songs, songs.currentSong) = <<createTabNoteState, createTabNoteState>>
    /\ NoteStates(songs, songs.exercises[1]) = <<createTabNoteState, createTabNoteState>>
    /\ Len(songs.heap) = 7
    /\ songs.heap[4].hit /\ songs.heap[5].hit

\* C35: fed the same judgments while Playing (RegisterHit on the desktop;
\* recordHit for OK, Good and Perfect and recordMiss for Miss on the web), the
\* two score states have the same score, combo, max combo, notes hit and
\* notes missed after every judgment.
C35_ScoreStatesAgree ==
    /\ gameState.Score = game.score
    /\ gameState.Combo = game.combo
    /\ gameState.MaxCombo = game.maxCombo
    /\ gameState.NotesHit = game.notesHit
    /\ gameState.NotesMissed = game.notesMissed

\* C35 witness: both implementations were given ten OK hits (the tenth at
\* multiplier 2), a miss and one more OK hit: score 300, combo 1, max combo 10.
C35_Witness ==
    /\ op = "RegisterHit"
    /\ judged = Repeat(HitOK, 10) \o <<HitMiss, HitOK>>
    /\ game.score = 300 /\ game.combo = 1 /\ game.maxCombo = 10
    /\ game.notesHit = 11 /\ game.notesMissed = 1
    /\ gameState.Score = 300 /\ gameState.MaxCombo = 10

\* C36 as claimed: whenever the desktop application is in Results, every note
\* of the chart is marked hit and the judgments counted in the session are as
\* many as the notes of the chart.
C36_Claimed_ResultsMeansAllJudged ==
    state = StateResults =>
        /\ gameState.NotesHit + gameState.NotesMissed = gameState.TotalNotes
        /\ \A i \in DOMAIN ActiveNotes : ActiveNotes[i].Hit

\* C36 witness: a second play of the two-note exercise ended in Results with
\* no judgment counted: both notes still carry the hit flag of the first play.
C36_Witness ==
    /\ op = "Frame" /\ state = StateResults /\ gameState.IsFinished
    /\ gameState.TotalNotes = 2
    /\ gameState.NotesHit = 0 /\ gameState.NotesMissed = 0
    /\ \A i \in DOMAIN ActiveNotes : ActiveNotes[i].Hit

\* C37: when CheckHit gets a valid sample that matches none of the unhit
\* notes inside the judging window, every note inside the window is left as
\* it was, score and NotesHit do not change, and the only notes it registers
\* are notes older than the miss window, as Miss.
C37_NoMatchChangesNoWindowNote ==
    [][(op' = "CheckHit" /\ IsValid(currentPitch')
            /\ KnownMatching(currentPitch') = {}) =>
          /\ \A i \in DOMAIN ActiveNotes :
                 InWindow(i) => ActiveNotes'[i] = ActiveNotes[i]
          /\ gameState'.Score = gameState.Score
          /\ gameState'.NotesHit = gameState.NotesHit
          /\ \A i \in NewlyHit :
                 /\ gameState.CurrentTime - ActiveNotes[i].Time > 300
                 /\ ActiveNotes'[i].HitQuality = HitMiss]_vars

\* C37 witness: CheckHit ran at 2.1 s with a valid sample halfway between E1
\* and F1 on the chart F1, E1, E1, all three notes unhit inside the window,
\* and none of them was hit.
C37_Witness ==
    /\ op = "CheckHit" /\ currentPitch = PitchBetween
    /\ gameState.CurrentTime = 2100
    /\ Len(ActiveNotes) = 3 /\ ActiveNotes[3].Time = 2200
    /\ \A i \in DOMAIN ActiveNotes : ~ActiveNotes[i].Hit /\ InWindow(i)
    /\ gameState.Score = 0 /\ gameState.NotesHit = 0 /\ gameState.NotesMissed = 0

\* C38: when one or more unhit notes inside the judging window match the
\* valid sample, the note of the window that CheckHit hits is the first of
\* them in chart order and no other; unhit notes of the window before it that
\* do not match stay unhit.
C38_FirstMatchInChartOrder ==
    [][(op' = "CheckHit" /\ IsValid(currentPitch')
            /\ KnownMatching(currentPitch') # {}) =>
          LET first == First(KnownMatching(currentPitch'))
          IN  /\ {i \in NewlyHit : InWindow(i)} = {first}
              /\ \A i \in DOMAIN ActiveNotes :
                     (i < first /\ InWindow(i) /\ ~ActiveNotes[i].Hit) =>
                         ~ActiveNotes'[i].Hit]_vars

\* C38 witness: at 2.1 s an E1 sample passed over the unhit F1 note at 2.0 s,
\* hit the E1 note at 2.1 s Perfect and left the E1 note at 2.2 s, which it
\* also matches, unhit.
C38_Witness ==
    /\ op = "CheckHit" /\ currentPitch = PitchE1
    /\ gameState.CurrentTime = 2100
    /\ Len(ActiveNotes) = 3
    /\ ActiveNotes[1].Fret = 1 /\ ~ActiveNotes[1].Hit
    /\ ActiveNotes[2].Fret = 0 /\ ActiveNotes[2].Hit
    /\ ActiveNotes[2].HitQuality = HitPerfect /\ ActiveNotes[2].HitTime = 2100
    /\ ActiveNotes[3].Fret = 0 /\ ~ActiveNotes[3].Hit
    /\ 3 \in KnownMatching(currentPitch)

\* C39: in every state of the web game store, whatever methods were called,
\* isPlaying is true exactly when state is PLAYING and isFinished is true
\* exactly when state is RESULTS.
C39_FlagsFollowState ==
    /\ game.isPlaying \in BOOLEAN /\ game.isFinished \in BOOLEAN
    /\ game.isPlaying <=> (game.state = "PLAYING")
    /\ game.isFinished <=> (game.state = "RESULTS")

\* C39 witness: endGame ended a game with two judged notes; the store is in
\* RESULTS, finished and no longer playing.
C39_Witness ==
    /\ op = "endGame" /\ game.state = "RESULTS"
    /\ game.isFinished /\ ~game.isPlaying
    /\ game.totalNotes = MaxWebJudgments
    /\ game.notesHit = 1 /\ game.notesMissed = 1

====
